---- MODULE Spec2Model ----
(***************************************************************************)
(* Model of the bsCalendar widget (bs-calendar.js 2.0.4): the per-wrapper   *)
(* data object, the navigation handlers, the date-window resolver and the   *)
(* appointment fetch coordinator (fetchAppointments).                        *)
(*                                                                           *)
(* JavaScript is single threaded: one action of this model is one macrotask  *)
(* (an event handler, a public method call, or the settlement of a data      *)
(* request) together with every microtask it queues, because the microtask   *)
(* queue is drained before the next macrotask starts.                        *)
(***************************************************************************)
EXTENDS Integers, Sequences, FiniteSets, TLC

(***************************************************************************)
(* Bounds of the model.                                                      *)
(***************************************************************************)
\* number of data requests that may be pending at once
MaxPending == 2
\* number of user inputs (navigation clicks, view selections, edits of the
\* search input, page clicks) one behaviour may take
MaxInputs == 3

(***************************************************************************)
(* Calendar arithmetic of the JavaScript Date object.  A Date is modelled by *)
(* its day number, days since 1970-01-01: the widget only reads and sets     *)
(* calendar fields, and the local time zone is taken to be UTC.              *)
(***************************************************************************)
FloorDiv(a, b) == IF a >= 0 THEN a \div b ELSE -(((-a) + b - 1) \div b)

FloorMod(a, b) == a - b * FloorDiv(a, b)

\* day number of the civil date y-m-d (m in 1..12, d any integer >= 1 - 31)
DaysFromCivil(y, m, d) ==
    LET yy  == IF m <= 2 THEN y - 1 ELSE y
        era == FloorDiv(yy, 400)
        yoe == yy - era * 400
        mp  == IF m > 2 THEN m - 3 ELSE m + 9
        doy == (153 * mp + 2) \div 5 + d - 1
        doe == yoe * 365 + yoe \div 4 - yoe \div 100 + doy
    IN era * 146097 + doe - 719468

\* civil date [y, m, d] of a day number
CivilFromDays(n) ==
    LET z   == n + 719468
        era == FloorDiv(z, 146097)
        doe == z - era * 146097
        yoe == (doe - doe \div 1460 + doe \div 36524 - doe \div 146096) \div 365
        doy == doe - (365 * yoe + yoe \div 4 - yoe \div 100)
        mp  == (5 * doy + 2) \div 153
        d   == doy - (153 * mp + 2) \div 5 + 1
        m   == IF mp < 10 THEN mp + 3 ELSE mp - 9
        y   == yoe + era * 400 + (IF m <= 2 THEN 1 ELSE 0)
    IN [y |-> y, m |-> m, d |-> d]

\* new Date(year, month0, day): month0 is zero based and, like day, may lie
\* outside its range; the Date constructor normalises both
MakeDay(year, month0, day) ==
    LET y == year + FloorDiv(month0, 12)
        m == FloorMod(month0, 12) + 1
    IN DaysFromCivil(y, m, 1) + day - 1

getFullYear(n) == CivilFromDays(n).y

\* zero based month, as Date.prototype.getMonth
getMonth(n) == CivilFromDays(n).m - 1

\* day of the month, as Date.prototype.getDate
getDateOfMonth(n) == CivilFromDays(n).d

\* 0 = Sunday .. 6 = Saturday; 1970-01-01 was a Thursday
getDay(n) == FloorMod(n + 4, 7)

\* Date.prototype.setDate / setMonth / setFullYear on a day number
setDateOfMonth(n, day) == MakeDay(getFullYear(n), getMonth(n), day)

setMonth(n, month0) == MakeDay(getFullYear(n), month0, getDateOfMonth(n))

setFullYear(n, year) == MakeDay(year, getMonth(n), getDateOfMonth(n))

(***************************************************************************)
(* Strings that the code formats or parses are sequences of one-character    *)
(* strings, so that formatting and parsing are computed, not assumed.        *)
(***************************************************************************)
DigitChars == <<"0", "1", "2", "3", "4", "5", "6", "7", "8", "9">>

DigitOf(c) == CHOOSE k \in 0..9 : DigitChars[k + 1] = c

RECURSIVE NatToChars(_)
\* String(n) for a natural number n
NatToChars(n) ==
    IF n < 10 THEN <<DigitChars[n + 1]>>
    ELSE NatToChars(n \div 10) \o <<DigitChars[(n % 10) + 1]>>

RECURSIVE CharsToNat(_)
CharsToNat(cs) ==
    IF cs = <<>> THEN 0
    ELSE 10 * CharsToNat(SubSeq(cs, 1, Len(cs) - 1)) + DigitOf(cs[Len(cs)])

\* String.prototype.padStart(2, '0')
padStart2(cs) == IF Len(cs) < 2 THEN <<"0">> \o cs ELSE cs

\* $.bsCalendar.utils.formatDateToDateString: YYYY-MM-DD
formatDateToDateString(n) ==
    NatToChars(getFullYear(n)) \o <<"-">> \o
    padStart2(NatToChars(getMonth(n) + 1)) \o <<"-">> \o
    padStart2(NatToChars(getDateOfMonth(n)))

\* new Date('YYYY-MM-DD') of a four-digit-year date string
parseDateString(cs) ==
    DaysFromCivil(CharsToNat(SubSeq(cs, 1, 4)),
                  CharsToNat(SubSeq(cs, 6, 7)),
                  CharsToNat(SubSeq(cs, 9, 10)))

RECURSIVE trim(_)
\* String.prototype.trim for the blank character
trim(cs) ==
    IF cs = <<>> THEN cs
    ELSE IF Head(cs) = " " THEN trim(Tail(cs))
    ELSE IF cs[Len(cs)] = " " THEN trim(SubSeq(cs, 1, Len(cs) - 1))
    ELSE cs

(***************************************************************************)
(* getStartAndEndDateByView: the window of a view around a date.             *)
(***************************************************************************)
Views == {"day", "week", "month", "year"}

\* d.setDate(d.getDate() + k)
addDays(n, k) == setDateOfMonth(n, getDateOfMonth(n) + k)

\* week: the offset added to the date to reach the start of its week
diffToMonday(startWeekOnSunday, dayOfWeek) ==
    IF startWeekOnSunday THEN dayOfWeek
    ELSE IF dayOfWeek = 0 THEN -6 ELSE 1 - dayOfWeek

\* month: days shown before the first of the month
startOffset(startWeekOnSunday, startDayOfWeek) ==
    IF startWeekOnSunday THEN startDayOfWeek
    ELSE IF startDayOfWeek = 0 THEN 6 ELSE startDayOfWeek - 1

\* month: days shown after the last of the month
endOffset(startWeekOnSunday, endDayOfWeek) ==
    IF startWeekOnSunday THEN 6 - endDayOfWeek
    ELSE IF endDayOfWeek = 0 THEN -1 ELSE 7 - endDayOfWeek

\* week: startDate and the end six days after it
weekWindow(startDate) == [start |-> startDate, end |-> addDays(startDate, 6)]

\* month: the grid from the week of the first to the week of the last day
monthWindow(first, lastDay, startWeekOnSunday) ==
    [start |-> addDays(first, -startOffset(startWeekOnSunday, getDay(first))),
     end   |-> addDays(lastDay, endOffset(startWeekOnSunday, getDay(lastDay)))]

\* the start and end Date objects computed by the switch over the view
getStartAndEndDays(view, date, startWeekOnSunday) ==
    CASE view = "week" ->
            weekWindow(addDays(date, diffToMonday(startWeekOnSunday, getDay(date))))
      [] view = "month" ->
            monthWindow(setDateOfMonth(date, 1),
                        setDateOfMonth(setMonth(date, getMonth(date) + 1), 0),
                        startWeekOnSunday)
      [] view \in {"year", "search"} ->
            [start |-> setDateOfMonth(setMonth(date, 0), 1),
             end   |-> setDateOfMonth(setMonth(date, 11), 31)]
      [] OTHER -> [start |-> date, end |-> date]

\* the three formatted strings the resolver returns
formatPeriod(date, p) ==
    [date  |-> formatDateToDateString(date),
     start |-> formatDateToDateString(p.start),
     end   |-> formatDateToDateString(p.end)]

getStartAndEndDateByView(view, date, startWeekOnSunday) ==
    formatPeriod(date, getStartAndEndDays(view, date, startWeekOnSunday))

(***************************************************************************)
(* Values of a request object.  A JavaScript object is a TLA+ record whose   *)
(* DOMAIN is the set of its keys; every value carries its type.              *)
(***************************************************************************)
Str(s) == [t |-> "string", s |-> s, n |-> 0, cs |-> <<>>]

Chars(cs) == [t |-> "string", s |-> "", n |-> 0, cs |-> cs]

Num(n) == [t |-> "number", s |-> "", n |-> n, cs |-> <<>>]

\* Object spread / key-wise assignment: b's keys win
Assign(a, b) ==
    [k \in (DOMAIN a) \cup (DOMAIN b) |-> IF k \in DOMAIN b THEN b[k] ELSE a[k]]

\* the object without the keys in ks
Without(a, ks) == [k \in (DOMAIN a) \ ks |-> a[k]]

\* the object restricted to the keys in ks
Only(a, ks) == [k \in (DOMAIN a) \cap ks |-> a[k]]

EmptyObject == [k \in {} |-> Str("")]

\* $.bsCalendar.utils.isValueEmpty on a string
isValueEmpty(cs) == Len(trim(cs)) = 0

(***************************************************************************)
(* Configuration and inputs.                                                 *)
(***************************************************************************)
\* DEFAULTS.search.limit and DEFAULTS.search.offset
SearchLimit == 10

SearchOffset == 0

\* settings.startDate: 2024-01-31
StartDates == {MakeDay(2024, 0, 31)}

\* settings.views
ConfiguredViews == {"month", "year"}

\* typeof settings.url: a callback, a URL string, or neither
UrlKinds == {"function", "string", "none"}

\* values typed into the search input: a blank, a term (the input starts,
\* and is reset to, the empty string)
SearchTerms == {<<" ">>, <<"a">>}

\* what one call of the settings.queryParams hook does
HookBehaviours == {"protected", "mutate", "nonobject", "throws"}

\* what one call of the settings.url callback does
UrlCallOutcomes == {"promise", "throws"}

\* what a data source answers: no rows, well-formed rows, a row without a
\* start string (cleanAppointments throws on it)
PayloadKinds == {"empty", "rows", "malformed"}

\* total reported by a search answer: one page, or more than one page
Totals == {1, SearchLimit + 1}

ProtectedKeys == {"fromDate", "toDate", "year", "view"}

NoRows == <<>>

\* the rows of an answer to request r, by the shape of a row: "span" has
\* start and end strings, "count" has a date and a positive total (the
\* answer to a year query), "bad" has neither
RowsOf(kind, r) ==
    IF kind = "empty" THEN NoRows
    ELSE <<[shape |-> IF kind = "malformed" THEN "bad"
                      ELSE IF "view" \in DOMAIN r.query /\ r.query.view = Str("year")
                      THEN "count" ELSE "span"]>>

(***************************************************************************)
(* State.                                                                    *)
(***************************************************************************)
VARIABLES
    phase,            \* "created": data object stored; "ready": init() has run;
                      \* "destroyed": removed from the wrapper by destroy;
                      \* "reattached": stored on the wrapper again after that
    settings,         \* bsCalendarData.settings
    view,             \* bsCalendarData.view
    lastView,         \* bsCalendarData.lastView
    date,             \* bsCalendarData.date
    searchMode,       \* bsCalendarData.searchMode
    searchPagination, \* bsCalendarData.searchPagination
    loading,          \* bsCalendarData.loading, the busy flag
    xhr,              \* bsCalendarData.xhrs.appointments: 0 is null, else a request id
    appointments,     \* bsCalendarData.appointments
    searchInput,      \* value of the [data-search-input] element
    container,        \* what the view container holds: "none", "calendar", "search"
    rendered,         \* the [data-appointment] elements in the wrapper
    pager,            \* pages offered by the rendered .wc-search-pagination, 0 if none
    reqs,             \* data requests dispatched and not yet settled, oldest first
    inputs,           \* user inputs taken so far
    last,             \* what the last macrotask did
    rapid,            \* progress of a double navigate-forward
    wrapperId,        \* the wrapper element has an id attribute
    storedView,       \* localStorage item bsCalendar.<id>.view, "none" if absent
    searched,         \* history: the term of the last search request built
                      \* since the search mode was entered, NoTerm if none
    probe,            \* a function applied on its own: its input and result
    loadingHolidays,  \* bsCalendarData.loadingHolidays
    holidayLoads,     \* holiday promise chains started and not yet settled
    indicator,        \* the wrapper holds a .current-time-indicator element
    timers,           \* intervals of addCurrentTimeIndicator not yet cleared,
                      \* set by the widget now on the wrapper
    orphans           \* such intervals set by a widget that was destroyed

vars == <<phase, settings, view, lastView, date, searchMode, searchPagination,
          loading, xhr, appointments, searchInput, container, rendered, pager,
          reqs, inputs, last, rapid, wrapperId, storedView, searched,
          probe, loadingHolidays, holidayLoads, indicator, timers, orphans>>

\* the variables the handlers work on, as one record
Cur ==
    [settings |-> settings, view |-> view, lastView |-> lastView, date |-> date,
     searchMode |-> searchMode, searchPagination |-> searchPagination,
     loading |-> loading, xhr |-> xhr, appointments |-> appointments,
     searchInput |-> searchInput, container |-> container, rendered |-> rendered,
     pager |-> pager, reqs |-> reqs,
     last |-> last, wrapperId |-> wrapperId, storedView |-> storedView,
     loadingHolidays |-> loadingHolidays, holidayLoads |-> holidayLoads,
     indicator |-> indicator, timers |-> timers]

Commit(s) ==
    /\ settings' = s.settings
    /\ view' = s.view
    /\ lastView' = s.lastView
    /\ date' = s.date
    /\ searchMode' = s.searchMode
    /\ searchPagination' = s.searchPagination
    /\ loading' = s.loading
    /\ xhr' = s.xhr
    /\ appointments' = s.appointments
    /\ searchInput' = s.searchInput
    /\ container' = s.container
    /\ rendered' = s.rendered
    /\ pager' = s.pager
    /\ reqs' = s.reqs
    /\ last' = s.last
    /\ wrapperId' = s.wrapperId
    /\ storedView' = s.storedView
    /\ loadingHolidays' = s.loadingHolidays
    /\ holidayLoads' = s.holidayLoads
    /\ indicator' = s.indicator
    /\ timers' = s.timers

\* no date function has been applied on its own
NoPeriod == [date |-> <<>>, start |-> <<>>, end |-> <<>>]

\* no holiday load is in flight, no interval is set, no indicator is drawn
NothingRunning ==
    /\ loadingHolidays = FALSE
    /\ holidayLoads = 0
    /\ indicator = FALSE
    /\ timers = 0
    /\ orphans = 0

NoProbe ==
    [op |-> "none", date |-> 0, period |-> NoPeriod, name |-> "",
     view |-> "none", lastView |-> "none", storedView |-> "none"]

\* the record of a macrotask that has not done anything yet
Idle ==
    [fetch |-> "none", settle |-> "none", aborted |-> FALSE, stale |-> FALSE,
     before |-> NoRows, own |-> EmptyObject, log |-> <<>>,
     holidays |-> "none", tick |-> <<"none", "none">>, error |-> "none"]

Begin == [Cur EXCEPT !.last = Idle]

(***************************************************************************)
(* Normalisation and drawing, as far as the fetch coordinator sees them.     *)
(***************************************************************************)
\* the macrotask emits an event or reaches a step, in order
Note(s, ev) == [s EXCEPT !.last.log = Append(@, ev)]

setAppointments(s, rows) == [s EXCEPT !.appointments = rows]

\* the rows the year branch keeps: those with a valid date and a total > 0
YearRows(rows) == SelectSeq(rows, LAMBDA a : a.shape = "count")

\* cleanAppointments calls appointment.start.trim(): it throws on a row
\* that has no start string
CleanThrows(rows) == \E i \in 1..Len(rows) : rows[i].shape # "span"

\* checkAndSetAppointments: [s: the state after it, ok: whether its promise
\* is fulfilled, value: what it is fulfilled with]
checkAndSetAppointments(s, rows) ==
    IF Len(rows) = 0
    THEN [s |-> setAppointments(s, NoRows), ok |-> TRUE, value |-> NoRows]
    ELSE IF s.view = "year"
    THEN [s |-> setAppointments(s, YearRows(rows)), ok |-> TRUE,
          value |-> YearRows(rows)]
    ELSE IF CleanThrows(rows)
    THEN [s |-> s, ok |-> FALSE, value |-> NoRows]
    ELSE [s |-> setAppointments(s, rows), ok |-> TRUE, value |-> rows]

\* a clear that removes the drawn appointments but keeps the stored ones
methodClearKeepsStored(s, removeAppointments) == [s EXCEPT !.rendered = NoRows]

methodClear(s, removeAppointments) ==
    LET c == [s EXCEPT !.rendered = NoRows]
    IN IF removeAppointments THEN checkAndSetAppointments(c, NoRows).s ELSE c

\* a guard that never rejects a call
HolidayGuardOff(s) == FALSE

\* the reentrancy guard of loadHolidays
HolidayGuard(s) == s.loadingHolidays

\* loadHolidays: behind the guard the flag is set, and a promise chain is
\* started when settings.holidays is an object; with none the flag is
\* cleared at once.  The branch of a function reads federalState, which is
\* declared in the block of the object branch only: the read throws a
\* ReferenceError before the function is called or a chain is started
loadHolidays(s) ==
    IF HolidayGuard(s) THEN [s EXCEPT !.last.holidays = "busy"]
    ELSE IF s.settings.holidays = "none"
    THEN [s EXCEPT !.loadingHolidays = FALSE]
    ELSE IF s.settings.holidays = "function"
    THEN [s EXCEPT !.loadingHolidays = TRUE, !.last.holidays = "threw"]
    ELSE [s EXCEPT !.loadingHolidays = TRUE,
                   !.holidayLoads = @ + 1,
                   !.last.holidays = "started"]

\* the drawing of the stored appointments into the cells of the calendar
\* grid, when the container holds one
drawAppointments(c) ==
    [c EXCEPT !.rendered = IF c.container = "calendar" THEN c.appointments
                           ELSE NoRows]

\* buildAppointmentsForView: clears, draws, and outside the search mode
\* loads the holidays
buildAppointmentsForView(s) ==
    IF s.searchMode THEN drawAppointments(methodClear(s, FALSE))
    ELSE loadHolidays(drawAppointments(methodClear(s, FALSE)))

\* Array.prototype.slice(0, end)
SliceTo(rows, end) ==
    LET e == IF end < 0 THEN Len(rows) + end ELSE end
        k == IF e < 0 THEN 0 ELSE IF e > Len(rows) THEN Len(rows) ELSE e
    IN SubSeq(rows, 1, k)

CeilDiv(a, b) == (a + b - 1) \div b

\* buildAppointmentsForSearch
buildAppointmentsForSearch(s, rows, total) ==
    IF s.container # "search" THEN s
    ELSE IF isValueEmpty(trim(s.searchInput)) \/ Len(rows) = 0
    THEN [s EXCEPT !.rendered = NoRows, !.pager = 0]
    ELSE
        LET limit      == s.searchPagination.limit
            page       == (s.searchPagination.offset \div limit) + 1
            totalPages == CeilDiv(total, limit)
            startIndex == (page - 1) * limit
            endIndex   == IF startIndex + limit < total THEN startIndex + limit
                          ELSE total
        IN [s EXCEPT !.rendered = SliceTo(rows, endIndex - startIndex),
                     !.pager = IF totalPages <= 1 THEN 0 ELSE totalPages]

(***************************************************************************)
(* fetchAppointments.                                                        *)
(***************************************************************************)
\* the request data of a calendar view, from the resolved period
ViewRequest(v, period) ==
    IF v = "year"
    THEN [year |-> Num(getFullYear(parseDateString(period.date))),
          view |-> Str(v)]
    ELSE [fromDate |-> Chars(period.start), toDate |-> Chars(period.end),
          view |-> Str(v)]

\* the request data the coordinator builds itself
RequestData(s) ==
    IF ~s.searchMode
    THEN ViewRequest(s.view,
                     getStartAndEndDateByView(s.view, s.date,
                                              s.settings.startWeekOnSunday))
    ELSE [limit  |-> Num(s.searchPagination.limit),
          offset |-> Num(s.searchPagination.offset),
          search |-> Chars(s.searchInput)]

Evil == Str("hook")

\* the request data object after the hook ran on it (the hook is handed the
\* object itself and may assign to it)
HookMutates(hook, requestData) ==
    IF hook = "mutate"
    THEN Assign(requestData, [k \in ProtectedKeys |-> Evil])
    ELSE requestData

\* what the hook returns; a non-object is the empty object here because the
\* merge skips it
HookReturns(hook) ==
    IF hook = "protected"
    THEN Assign([k \in ProtectedKeys |-> Evil], [extra |-> Str("x")])
    ELSE EmptyObject

\* the defensive merge: every returned key except the protected ones
MergeQueryParams(requestData, returned) ==
    Assign(requestData, Without(returned, ProtectedKeys))

\* the request data after the queryParams block
Enriched(s, hook, requestData) ==
    IF s.settings.queryParams
    THEN MergeQueryParams(HookMutates(hook, requestData), HookReturns(hook))
    ELSE requestData

Live(s, id) == \E i \in 1..Len(s.reqs) : s.reqs[i].id = id

\* a handle that no pending request and no stored handle uses
FreshId(s) ==
    CHOOSE i \in 1..(Len(s.reqs) + 2) : ~Live(s, i) /\ i # s.xhr

\* abortXhr on the stored handle: jQuery runs the error and complete
\* callbacks of a request that is still pending before abort() returns
abortXhr(s) ==
    IF s.xhr # 0 /\ Live(s, s.xhr)
    THEN [s EXCEPT !.reqs = SelectSeq(@, LAMBDA r : r.id # s.xhr),
                   !.xhr = 0,
                   !.loading = FALSE,
                   !.last.aborted = TRUE]
    ELSE s

\* the empty-search branch
SkipLoading(s) ==
    LET c == checkAndSetAppointments(s, NoRows)
        a == buildAppointmentsForView(Note(Note(c.s, "normalized"), "after-load"))
    IN [a EXCEPT !.loading = FALSE, !.last.fetch = "skippedEmpty"]

\* a request carrying requestData goes out; own is the request data as the
\* coordinator built it
Dispatch(s, kind, requestData, own) ==
    [s EXCEPT !.reqs = Append(@, [id |-> FreshId(s), kind |-> kind,
                                  query |-> requestData, own |-> own,
                                  search |-> s.searchMode, overtaken |-> FALSE,
                                  before |-> s.last.before]),
              !.last.log = Append(@, "dispatch"),
              !.last.fetch = "dispatched"]

\* xhrs.appointments = $.ajax(...)
StoreHandle(d) == [d EXCEPT !.xhr = d.reqs[Len(d.reqs)].id]

\* the switch over the data source, after before-load
Load(b, urlOutcome, requestData, own) ==
    CASE b.settings.url = "function" ->
            IF urlOutcome = "throws"
            THEN [b EXCEPT !.last.fetch = "threw"]
            ELSE Dispatch(b, "function", requestData, own)
      [] b.settings.url = "string" ->
            StoreHandle(Dispatch([abortXhr(b) EXCEPT !.xhr = 0], "string",
                                 requestData, own))
      [] OTHER ->
            [b EXCEPT !.loading = FALSE, !.last.fetch = "nosource"]

\* from the queryParams block on; own is the request data just built
Enquire(c, hook, urlOutcome, own) ==
    IF c.settings.queryParams /\ hook = "throws"
    THEN [c EXCEPT !.last.fetch = "threw"]
    ELSE IF c.searchMode /\ isValueEmpty(c.searchInput) THEN SkipLoading(c)
    ELSE Load(Note(c, "before-load"), urlOutcome, Enriched(c, hook, own), own)

\* the part of fetchAppointments after the busy flag is set; c is the state
\* after methodClear
FetchCleared(c, hook, urlOutcome) == Enquire(c, hook, urlOutcome, RequestData(c))

FetchBody(s, hook, urlOutcome) ==
    FetchCleared(methodClear(s, TRUE), hook, urlOutcome)

\* a guard that never rejects a call
BusyGuardOff(s) == FALSE

\* a guard that tests the stored request handle instead of the busy flag
BusyGuardOnHandle(s) == s.xhr # 0

\* the busy guard of fetchAppointments
BusyGuard(s) == s.loading

fetchAppointments(s, hook, urlOutcome) ==
    LET p == [s EXCEPT !.last.before = s.appointments]
    IN IF BusyGuard(p)
       THEN [p EXCEPT !.last.fetch = "skipped"]
       ELSE FetchBody([p EXCEPT !.loading = TRUE], hook, urlOutcome)

(***************************************************************************)
(* View building and the handlers.                                           *)
(***************************************************************************)
\* what new Date() reads while the widget runs: 2024-02-15
Today == MakeDay(2024, 1, 15)

\* buildDayViewContent finds isToday for the day of the day view, or for one
\* of the seven days buildWeekView lays out
showsToday(s) ==
    CASE s.searchMode -> FALSE
      [] s.view = "day" -> s.date = Today
      [] s.view = "week" ->
            (Today - addDays(s.date, -(IF s.settings.startWeekOnSunday
                                       THEN getDay(s.date)
                                       ELSE IF getDay(s.date) = 0 THEN 6
                                       ELSE getDay(s.date) - 1))) \in 0..6
      [] OTHER -> FALSE

\* addCurrentTimeIndicator: the indicator is drawn and an interval is set
addCurrentTimeIndicator(s) ==
    [s EXCEPT !.indicator = TRUE, !.timers = @ + 1]

\* the builder of the view empties the view container and lays the view out
buildView(s) ==
    IF showsToday(s) THEN addCurrentTimeIndicator(s)
    ELSE [s EXCEPT !.indicator = FALSE]

\* buildByView: every builder empties the view container, then the
\* appointments are fetched
buildByView(s, hook, urlOutcome) ==
    fetchAppointments(buildView([s EXCEPT !.container = IF s.searchMode
                                                        THEN "search"
                                                        ELSE "calendar",
                                          !.rendered = NoRows,
                                          !.pager = 0]),
                      hook, urlOutcome)

\* the date navigateForward (step = 1) or navigateBack (step = -1) stores
\* month navigation: when the day of the month overflowed, the first of the
\* month the Date rolled over to
FixOverflow(d, newDate) ==
    IF getDateOfMonth(newDate) # getDateOfMonth(d)
    THEN setDateOfMonth(newDate, 1) ELSE newDate

Navigated(v, d, step) ==
    CASE v = "month" -> FixOverflow(d, setMonth(d, getMonth(d) + step))
      [] v = "year" -> setDateOfMonth(setFullYear(d, getFullYear(d) + step), 1)
      [] v = "week" -> setDateOfMonth(d, getDateOfMonth(d) + 7 * step)
      [] v = "day"  -> setDateOfMonth(d, getDateOfMonth(d) + step)
      [] OTHER -> d

navigateForward(s, hook, urlOutcome) ==
    buildByView([s EXCEPT !.date = Navigated(s.view, s.date, 1)], hook, urlOutcome)

navigateBack(s, hook, urlOutcome) ==
    buildByView([s EXCEPT !.date = Navigated(s.view, s.date, -1)], hook, urlOutcome)

\* removeFromLocalStorage($wrapper, 'view')
removeFromLocalStorage(s) ==
    IF ~s.wrapperId THEN s ELSE [s EXCEPT !.storedView = "none"]

\* a saveToLocalStorage that does not look at settings.storeState
saveToLocalStorageUngated(s, value) ==
    IF ~s.wrapperId THEN s ELSE [s EXCEPT !.storedView = value]

\* saveToLocalStorage($wrapper, 'view', value) for a string value
saveToLocalStorage(s, value) ==
    IF ~s.settings.storeState
    THEN IF s.settings.debug THEN removeFromLocalStorage(s) ELSE s
    ELSE IF ~s.wrapperId THEN s
    ELSE [s EXCEPT !.storedView = value]

\* a setView that goes on with whatever name it was given
validViewKeepsName(v) == v

\* setView: the view name it goes on with
validView(v) == IF v # "search" /\ v \notin Views THEN "month" ELSE v

\* setView: the console.error for an invalid name
warnInvalid(s, v) ==
    IF validView(v) # v /\ s.settings.debug THEN Note(s, "console.error") ELSE s

\* a setView that records the last view whatever the new view is
recordLastViewAlways(s, w) == [s EXCEPT !.lastView = s.view]

\* setView: data.lastView = currentView if the view changes
recordLastView(s, w) ==
    IF s.view # w THEN [s EXCEPT !.lastView = s.view] ELSE s

\* setView: the view is saved and assigned
storeView(s, w) == [saveToLocalStorage(s, w) EXCEPT !.view = w]

setView(s, v) ==
    storeView(recordLastView(warnInvalid(s, v), validView(v)), validView(v))

DefaultPagination == [limit |-> SearchLimit, offset |-> SearchOffset]

\* setSearchPagination with the configured limit and offset
resetPagination(s) == [s EXCEPT !.searchPagination = DefaultPagination]

toggleSearchMode(s, status, rebuildView, hook, urlOutcome) ==
    IF status THEN buildByView([s EXCEPT !.searchMode = TRUE], hook, urlOutcome)
    ELSE IF rebuildView
    THEN buildByView(resetPagination([s EXCEPT !.searchMode = FALSE]),
                     hook, urlOutcome)
    ELSE resetPagination([s EXCEPT !.searchMode = FALSE])

triggerSearch(s, hook, urlOutcome) ==
    buildByView([s EXCEPT !.searchPagination = DefaultPagination], hook, urlOutcome)

\* how a double navigate-forward progresses with a handler's outcome
RapidAfter(s, forward) ==
    IF forward /\ s.last.fetch = "dispatched" THEN "one"
    ELSE IF forward /\ s.last.fetch = "skipped" /\ rapid = "one" THEN "two"
    ELSE "none"

\* a handler returns with the state s
\* no search request has been built: a request never carries an empty term
NoTerm == <<>>

\* the term of the last search request built, after a handler that ends in
\* the state s
SearchedAfter(s) ==
    IF ~s.searchMode THEN NoTerm
    ELSE IF s.last.fetch = "dispatched" THEN s.searchInput
    ELSE searched

Return(s, forward) ==
    /\ Commit(s)
    /\ rapid' = RapidAfter(s, forward)
    /\ searched' = SearchedAfter(s)
    /\ UNCHANGED <<probe, orphans>>

CanAct == phase = "ready" /\ Len(reqs) < MaxPending

CanInput == CanAct /\ inputs < MaxInputs

\* init: the start view and date are stored, the search state is reset, and
\* the view is built
init(s, hook, urlOutcome) ==
    buildByView([s EXCEPT !.view = IF s.settings.startView \in s.settings.views
                                   THEN s.settings.startView
                                   ELSE CHOOSE v \in s.settings.views : TRUE,
                          !.date = s.settings.startDate,
                          !.searchMode = FALSE,
                          !.searchPagination = DefaultPagination],
                hook, urlOutcome)

\* the plugin call that creates the widget
InitWidget(hook, urlOutcome) ==
    /\ phase = "created"
    /\ phase' = "ready"
    /\ Return(init(Begin, hook, urlOutcome), FALSE)
    /\ UNCHANGED inputs

\* click on [data-next]
ClickNext(hook, urlOutcome) ==
    /\ CanInput
    /\ Return(IF searchMode THEN Begin
              ELSE navigateForward(Begin, hook, urlOutcome), TRUE)
    /\ inputs' = inputs + 1
    /\ UNCHANGED phase

\* click on [data-prev]
ClickPrev(hook, urlOutcome) ==
    /\ CanInput
    /\ Return(IF searchMode THEN Begin
              ELSE navigateBack(Begin, hook, urlOutcome), FALSE)
    /\ inputs' = inputs + 1
    /\ UNCHANGED phase

\* click on an entry of the view dropdown
SelectView(newView, hook, urlOutcome) ==
    /\ CanInput
    /\ newView \in settings.views
    /\ Return(IF searchMode \/ view = newView THEN Begin
              ELSE buildByView(setView(Begin, newView), hook, urlOutcome), FALSE)
    /\ inputs' = inputs + 1
    /\ UNCHANGED phase

\* the keyup handler on the state m, in which the input holds the term and
\* the search mode is set if the term is not empty
OnKeyup(m, isEnterKey, hook, urlOutcome) ==
    IF isValueEmpty(m.searchInput)
    THEN toggleSearchMode(m, FALSE, TRUE, hook, urlOutcome)
    ELSE IF isEnterKey THEN triggerSearch(m, hook, urlOutcome)
    ELSE m

\* keyup in the search input, whose value is then term
KeyupSearch(term, isEnterKey, hook, urlOutcome) ==
    /\ CanInput
    /\ Return(OnKeyup([Begin EXCEPT !.searchInput = term,
                                    !.searchMode = @ \/ ~isValueEmpty(term)],
                      isEnterKey, hook, urlOutcome), FALSE)
    /\ inputs' = inputs + 1
    /\ UNCHANGED phase

\* the value of the search input changes without a keyup (its clear button,
\* a paste with the mouse)
InputChange(term) ==
    /\ CanInput
    /\ term # searchInput
    /\ Return([Begin EXCEPT !.searchInput = term], FALSE)
    /\ inputs' = inputs + 1
    /\ UNCHANGED phase

\* click on the close button of the search bar
CloseSearch(hook, urlOutcome) ==
    /\ CanInput
    /\ Return(IF searchMode
              THEN toggleSearchMode([Begin EXCEPT !.searchInput = <<>>],
                                    FALSE, TRUE, hook, urlOutcome)
              ELSE [Begin EXCEPT !.searchInput = <<>>], FALSE)
    /\ inputs' = inputs + 1
    /\ UNCHANGED phase

\* the page click stores the offset of the page and fetches
OnPage(b, newPage, hook, urlOutcome) ==
    fetchAppointments(
        [b EXCEPT !.searchPagination =
                      [limit  |-> b.searchPagination.limit,
                       offset |-> (newPage - 1) * b.searchPagination.limit],
                  !.pager = 0],
        hook, urlOutcome)

\* click on a page link of the search pagination
ClickPage(newPage, hook, urlOutcome) ==
    /\ CanInput
    /\ newPage \in 1..pager
    /\ Return(OnPage(Begin, newPage, hook, urlOutcome), FALSE)
    /\ inputs' = inputs + 1
    /\ UNCHANGED phase

\* the public method refresh, without parameters
MethodRefresh(hook, urlOutcome) ==
    /\ CanAct
    /\ Return(buildByView(Begin, hook, urlOutcome), FALSE)
    /\ UNCHANGED <<phase, inputs>>

\* the debounced wheel handler on the view container; the pointer is inside
\* the calendar and no modal is open
WheelNavigate(down, hook, urlOutcome) ==
    /\ CanInput
    /\ settings.navigateOnWheel
    /\ Return(IF down THEN navigateForward(Begin, hook, urlOutcome)
              ELSE navigateBack(Begin, hook, urlOutcome), FALSE)
    /\ inputs' = inputs + 1
    /\ UNCHANGED phase

\* setToday: the view is switched if one of settings.views is given, the
\* date becomes today, and the view is built
setToday(s, v, today, hook, urlOutcome) ==
    buildByView([s EXCEPT !.view = IF v \in s.settings.views THEN v ELSE @,
                          !.date = today],
                hook, urlOutcome)

\* click on [data-today]
ClickToday(today, hook, urlOutcome) ==
    /\ CanInput
    /\ Return(IF searchMode THEN Begin
              ELSE setToday(Begin, "", today, hook, urlOutcome), FALSE)
    /\ inputs' = inputs + 1
    /\ UNCHANGED phase

\* the public method setToday, with a view name or without one ("")
MethodSetToday(v, today, hook, urlOutcome) ==
    /\ CanInput
    /\ Return(IF searchMode THEN Begin
              ELSE setToday(Begin, v, today, hook, urlOutcome), FALSE)
    /\ inputs' = inputs + 1
    /\ UNCHANGED phase

\* methodSetDate called with a Date or a date string: the date is stored and
\* the view is built
methodSetDate(s, d, hook, urlOutcome) ==
    buildByView([s EXCEPT !.date = d], hook, urlOutcome)

\* the public method setDate
MethodSetDate(d, hook, urlOutcome) ==
    /\ CanInput
    /\ Return(IF searchMode THEN Begin
              ELSE methodSetDate(Begin, d, hook, urlOutcome), FALSE)
    /\ inputs' = inputs + 1
    /\ UNCHANGED phase

(***************************************************************************)
(* Settlement of a data request.                                             *)
(***************************************************************************)
\* the requests that were pending when another request's answer was stored
Overtake(rs) == [i \in 1..Len(rs) |-> [rs[i] EXCEPT !.overtaken = TRUE]]

\* the callbacks that run when the data source answers request r with rows:
\* checkAndSetAppointments, then after-load and the drawing
OnAnswer(s, r, rows, total) ==
    LET c == checkAndSetAppointments(s, rows)
    IN IF c.ok
       THEN LET n == Note(Note(c.s, "normalized"), "after-load")
                d == IF r.search THEN buildAppointmentsForSearch(n, c.value, total)
                     ELSE buildAppointmentsForView(n)
            IN [d EXCEPT !.last.settle = "applied", !.last.stale = r.overtaken,
                         !.reqs = Overtake(@)]
       ELSE [c.s EXCEPT !.last.settle = "normfail"]

\* failure handlers that also emit after-load
OnFailureEmitsAfterLoad(s) ==
    [Note(Note(s, "failed"), "after-load") EXCEPT !.last.settle = "failed"]

\* the handlers of a failure that is not an abort: it is logged
OnFailure(s) ==
    [Note(s, "failed") EXCEPT !.last.settle = "failed"]

Pending == {reqs[i] : i \in 1..Len(reqs)}

Settling(r) ==
    [Begin EXCEPT !.reqs = SelectSeq(@, LAMBDA q : q.id # r.id),
                  !.last.before = r.before,
                  !.last.own = r.own]

\* a settlement returns with the state s
Settled(s) ==
    /\ Commit(s)
    /\ rapid' = IF rapid = "two" /\ s.last.settle = "applied" THEN "settled"
                ELSE "none"
    /\ UNCHANGED <<searched, probe, orphans>>

\* the finally handler of the promise chain
UrlFinally(s) == [s EXCEPT !.loading = FALSE]

\* the promise returned by settings.url is fulfilled
UrlResolve(r, kind, total) ==
    /\ phase = "ready"
    /\ r \in Pending /\ r.kind = "function"
    /\ Settled(UrlFinally(OnAnswer(Settling(r), r, RowsOf(kind, r), total)))
    /\ UNCHANGED <<phase, inputs>>

\* the promise returned by settings.url is rejected
UrlReject(r) ==
    /\ phase = "ready"
    /\ r \in Pending /\ r.kind = "function"
    /\ Settled(UrlFinally(OnFailure(Settling(r))))
    /\ UNCHANGED <<phase, inputs>>

\* the complete callback of $.ajax
AjaxComplete(s) == [s EXCEPT !.xhr = 0, !.loading = FALSE]

\* the request sent with $.ajax succeeds
AjaxSuccess(r, kind, total) ==
    /\ phase = "ready"
    /\ r \in Pending /\ r.kind = "string"
    /\ Settled(AjaxComplete(OnAnswer(Settling(r), r, RowsOf(kind, r), total)))
    /\ UNCHANGED <<phase, inputs>>

\* the request sent with $.ajax fails with a status other than abort
AjaxError(r) ==
    /\ phase = "ready"
    /\ r \in Pending /\ r.kind = "string"
    /\ Settled(AjaxComplete(OnFailure(Settling(r))))
    /\ UNCHANGED <<phase, inputs>>

(***************************************************************************)
(* The specification.                                                        *)
(***************************************************************************)
SettingsSpace ==
    [url : UrlKinds, queryParams : BOOLEAN, startWeekOnSunday : {TRUE},
     views : {ConfiguredViews}, startView : {"month"}, startDate : StartDates,
     storeState : {FALSE}, debug : {TRUE}, navigateOnWheel : {TRUE},
     holidays : {"none"}]

\* the data object as $.fn.bsCalendar stores it before init() runs; date and
\* searchPagination, which init() assigns before anything reads them, hold
\* the values init() gives them
Created(space) ==
    /\ phase = "created"
    /\ settings \in space
    /\ view = "none"
    /\ lastView = "none"
    /\ date = settings.startDate
    /\ searchMode = FALSE
    /\ searchPagination = DefaultPagination
    /\ loading = FALSE
    /\ xhr = 0
    /\ appointments = NoRows
    /\ searchInput = <<>>
    /\ container = "none"
    /\ rendered = NoRows
    /\ pager = 0
    /\ reqs = <<>>
    /\ inputs = 0
    /\ last = Idle
    /\ rapid = "none"
    /\ wrapperId = TRUE
    /\ storedView = "none"
    /\ searched = NoTerm
    /\ probe = NoProbe
    /\ NothingRunning

Init == Created(SettingsSpace)

\* the day the clock shows when setToday runs: 2024-02-15
Todays == {MakeDay(2024, 1, 15)}

\* the dates the public method setDate is called with
SetDates == {MakeDay(2024, 2, 31)}

\* the hook is only called when settings.queryParams is a function, the
\* callback only when settings.url is one
Hooks == IF settings.queryParams /\ ~loading THEN HookBehaviours ELSE {"none"}

\* only the answer to a search carries a total
TotalsOf(r) == IF r.search THEN Totals ELSE {0}

UrlOutcomes ==
    IF settings.url = "function" /\ ~loading THEN UrlCallOutcomes ELSE {"none"}

Next ==
    \/ \E h \in Hooks, u \in UrlOutcomes : InitWidget(h, u)
    \/ \E h \in Hooks, u \in UrlOutcomes : ClickNext(h, u)
    \/ \E h \in Hooks, u \in UrlOutcomes : ClickPrev(h, u)
    \/ \E v \in Views, h \in Hooks, u \in UrlOutcomes : SelectView(v, h, u)
    \/ \E term \in SearchTerms, e \in BOOLEAN, h \in Hooks, u \in UrlOutcomes :
          KeyupSearch(term, e, h, u)
    \/ \E term \in SearchTerms \cup {<<>>} : InputChange(term)
    \/ \E h \in Hooks, u \in UrlOutcomes : CloseSearch(h, u)
    \/ \E p \in 1..pager, h \in Hooks, u \in UrlOutcomes : ClickPage(p, h, u)
    \/ \E h \in Hooks, u \in UrlOutcomes : MethodRefresh(h, u)
    \/ \E r \in Pending : \E k \in PayloadKinds, n \in TotalsOf(r) : UrlResolve(r, k, n)
    \/ \E r \in Pending : UrlReject(r)
    \/ \E r \in Pending : \E k \in PayloadKinds, n \in TotalsOf(r) : AjaxSuccess(r, k, n)
    \/ \E r \in Pending : AjaxError(r)

Spec == Init /\ [][Next]_vars

\* the further entry points of date navigation: the mouse wheel, the today
\* button and the public methods setToday and setDate
NavigationEntries ==
    \/ \E down \in BOOLEAN, h \in Hooks, u \in UrlOutcomes :
          WheelNavigate(down, h, u)
    \/ \E today \in Todays, h \in Hooks, u \in UrlOutcomes :
          ClickToday(today, h, u)
    \/ \E v \in Views \cup {""}, today \in Todays, h \in Hooks, u \in UrlOutcomes :
          MethodSetToday(v, today, h, u)
    \/ \E d \in SetDates, h \in Hooks, u \in UrlOutcomes : MethodSetDate(d, h, u)

\* a widget that loads from a URL and has no queryParams hook
NavInit == Init /\ settings.url = "string" /\ ~settings.queryParams

NavNext ==
    \/ \E h \in Hooks, u \in UrlOutcomes : InitWidget(h, u)
    \/ \E h \in Hooks, u \in UrlOutcomes : ClickNext(h, u)
    \/ \E h \in Hooks, u \in UrlOutcomes : ClickPrev(h, u)
    \/ \E term \in SearchTerms, e \in BOOLEAN, h \in Hooks, u \in UrlOutcomes :
          KeyupSearch(term, e, h, u)
    \/ \E h \in Hooks, u \in UrlOutcomes : CloseSearch(h, u)
    \/ NavigationEntries
    \/ \E r \in Pending : \E k \in PayloadKinds, n \in TotalsOf(r) : AjaxSuccess(r, k, n)
    \/ \E r \in Pending : AjaxError(r)

\* the widget with every entry point of date navigation, and the search
\* input that switches the search mode
NavSpec == NavInit /\ [][NavNext]_vars

(***************************************************************************)
(* Teardown: destroy, what settles after it, and the intervals of the        *)
(* current-time indicator.                                                   *)
(***************************************************************************)
\* destroy: methodClear, abortXhr on the stored handle, $wrapper.empty()
destroy(s) ==
    [abortXhr(methodClear(s, TRUE)) EXCEPT !.container = "none",
                                           !.rendered = NoRows,
                                           !.pager = 0,
                                           !.searchInput = <<>>,
                                           !.indicator = FALSE,
                                           !.timers = 0]

\* the public method destroy: at its end the data object is removed from
\* the wrapper; no interval is cleared
MethodDestroy ==
    /\ phase = "ready" /\ inputs < MaxInputs
    /\ phase' = "destroyed"
    /\ Commit(destroy(Begin))
    /\ orphans' = orphans + timers
    /\ inputs' = inputs + 1
    /\ rapid' = "none"
    /\ UNCHANGED <<searched, probe>>

\* the plugin is called on a wrapper that holds no data object: a new data
\* object is stored (taken here once nothing of the destroyed widget is in
\* flight any more)
CreateWidget ==
    /\ phase = "destroyed" /\ reqs = <<>> /\ holidayLoads = 0
    /\ phase' = "created"
    /\ Commit([Begin EXCEPT !.view = "none", !.lastView = "none",
                            !.date = settings.startDate,
                            !.searchMode = FALSE,
                            !.searchPagination = DefaultPagination,
                            !.loading = FALSE, !.xhr = 0,
                            !.appointments = NoRows,
                            !.loadingHolidays = FALSE])
    /\ UNCHANGED <<inputs, rapid, searched, probe, orphans>>

\* a data request settles after destroy: checkAndSetAppointments finds no
\* data object on the wrapper and throws, and the finally handler (the
\* complete callback of $.ajax) stores the data object it captured
SettleDestroyed(r, fulfilled) ==
    /\ phase = "destroyed" /\ r \in Pending
    /\ phase' = "reattached"
    /\ Settled([(IF r.kind = "function" THEN UrlFinally(Settling(r))
                 ELSE AjaxComplete(Settling(r)))
                EXCEPT !.last.settle = IF fulfilled THEN "nodata" ELSE "failed"])
    /\ UNCHANGED inputs

\* the holiday promise chain settles: its finally handler clears the flag
\* and stores the data object it captured
HolidaysSettle ==
    /\ holidayLoads > 0
    /\ phase' = IF phase = "destroyed" THEN "reattached" ELSE phase
    /\ Commit([Begin EXCEPT !.holidayLoads = @ - 1,
                            !.loadingHolidays = FALSE,
                            !.last.holidays = "settled"])
    /\ UNCHANGED <<inputs, rapid, searched, probe, orphans>>

\* the callback of an interval: it clears its interval when the wrapper
\* holds no indicator (the wrapper itself stays in the document), else it
\* updates the indicator it was set for; owner tells whose interval it is
Tick(s, owner) ==
    [s EXCEPT !.last.tick = <<owner, IF s.indicator THEN "updated" ELSE "cleared">>]

\* an interval of the widget on the wrapper fires
TimerTick ==
    /\ timers > 0
    /\ Commit([Tick(Begin, "widget") EXCEPT !.timers = IF indicator THEN @ ELSE @ - 1])
    /\ UNCHANGED <<phase, inputs, rapid, searched, probe, orphans>>

\* an interval of a destroyed widget fires
OrphanTick ==
    /\ orphans > 0
    /\ Commit(Tick(Begin, "destroyed"))
    /\ orphans' = IF indicator THEN orphans ELSE orphans - 1
    /\ UNCHANGED <<phase, inputs, rapid, searched, probe>>

\* a widget that opens in the day view on today's date
LifeSettings ==
    [url : {"function", "string"}, queryParams : {FALSE},
     startWeekOnSunday : {TRUE}, views : {{"day", "month"}},
     startView : {"day"}, startDate : {Today}, storeState : {FALSE},
     debug : {TRUE}, navigateOnWheel : {TRUE},
     holidays : {"none", "object", "function"}]

LifeInit == Created(LifeSettings)

LifeNext ==
    \/ \E h \in Hooks, u \in UrlOutcomes : InitWidget(h, u)
    \/ \E h \in Hooks, u \in UrlOutcomes : ClickNext(h, u)
    \/ \E h \in Hooks, u \in UrlOutcomes : ClickPrev(h, u)
    \/ MethodDestroy
    \/ CreateWidget
    \/ \E r \in Pending : \E k \in PayloadKinds, n \in TotalsOf(r) : UrlResolve(r, k, n)
    \/ \E r \in Pending : UrlReject(r)
    \/ \E r \in Pending : \E k \in PayloadKinds, n \in TotalsOf(r) : AjaxSuccess(r, k, n)
    \/ \E r \in Pending : AjaxError(r)
    \/ \E r \in Pending, fulfilled \in BOOLEAN : SettleDestroyed(r, fulfilled)
    \/ HolidaysSettle
    \/ TimerTick
    \/ OrphanTick

\* the life of the widgets on one wrapper, from creation to destroy and on
LifeSpec == LifeInit /\ [][LifeNext]_vars

(***************************************************************************)
(* Properties of the fetch coordinator.                                      *)
(***************************************************************************)
\* the macrotask that led to this state emitted ev
Emitted(ev) == \E i \in 1..Len(last.log) : last.log[i] = ev

\* the macrotask emitted a, and b after it
EmittedInOrder(a, b) ==
    \E i, j \in 1..Len(last.log) : i < j /\ last.log[i] = a /\ last.log[j] = b

\* C1: when navigate-forward is issued twice in rapid succession, the one
\* result that is applied is the result of the second request, that is of
\* the request for the window of the date advanced twice, and the busy flag
\* is false once it has settled.
C1_SecondResultApplied ==
    rapid = "settled" => last.own = RequestData(Cur) /\ ~loading

\* C2: the result of a request is never applied after the result of a
\* request that was dispatched later.
C2_NoStaleResult == last.settle = "applied" => ~last.stale

\* a result is applied although a later fetch was requested while its
\* request was pending
C2_Witness == rapid = "settled" /\ last.settle = "applied" /\ ~last.stale

\* C3: after a fetch is requested, the only request to a URL data source
\* still pending is the one this fetch issued: a request that was pending
\* before has been aborted and a new one dispatched.
C3_PendingAborted ==
    \A i \in 1..Len(reqs) :
        (last.fetch # "none" /\ reqs[i].kind = "string")
            => (last.fetch = "dispatched" /\ i = Len(reqs))

\* C4: at most one data request is outstanding, and a pending request to a
\* URL data source is the one whose handle is stored.
C4_SingleFlight ==
    /\ Len(reqs) <= 1
    /\ \A r \in Pending : r.kind = "string" => xhr = r.id

\* a fetch was requested while a request was pending, and one request, the
\* one whose handle is stored, is outstanding
C4_Witness == last.fetch = "skipped" /\ Len(reqs) = 1 /\ xhr = reqs[1].id

\* C5: the busy flag is set only while a data request is outstanding, whose
\* settlement clears it: no fetch returns with the flag set and nothing
\* left to clear it.
C5_BusyFlagCleared == loading => reqs # <<>>

\* C6 as stated: after a failure that is not an abort, the appointment set
\* stored before the fetch began is still stored.
C6_PreviousSetInPlace == last.settle = "failed" => appointments = last.before

\* C6: after a failure that is not an abort (the data source fails, or the
\* normalization of its answer does), no appointments are stored or drawn:
\* the fetch cleared them when it began, and the failure handlers restore
\* nothing.
C6_ClearedAfterFailure ==
    last.settle \in {"failed", "normfail"}
        => appointments = NoRows /\ rendered = NoRows

\* a fetch that began with appointments stored has failed
C6_Witness ==
    last.settle = "failed" /\ last.before # NoRows /\ appointments = NoRows

\* C7 as stated: before-load precedes the dispatch, and after-load follows
\* on the failure path as on the success path.
C7_AfterLoadOnEveryPath ==
    /\ last.fetch = "dispatched" => EmittedInOrder("before-load", "dispatch")
    /\ last.settle \in {"applied", "failed"} => Emitted("after-load")

\* C7: before-load precedes the dispatch; after-load follows normalization
\* when the data source answered and normalization succeeded; a failure
\* emits no after-load.
C7_AfterLoadOnSuccess ==
    /\ last.fetch = "dispatched" => EmittedInOrder("before-load", "dispatch")
    /\ last.settle = "applied" => EmittedInOrder("normalized", "after-load")
    /\ last.settle \in {"failed", "normfail"} => ~Emitted("after-load")

\* a dispatched request has failed and no after-load was emitted
C7_Witness == last.settle = "failed" /\ ~Emitted("after-load")

\* C8: a fetch in search mode with an empty term dispatches no request,
\* stores the empty result, runs the after-load path, and leaves no drawn
\* appointments.
C8_EmptySearch ==
    (searchMode /\ isValueEmpty(searchInput) /\ last.fetch \notin {"none", "skipped"})
        => /\ last.fetch = "skippedEmpty"
           /\ reqs = <<>>
           /\ appointments = NoRows
           /\ rendered = NoRows
           /\ EmittedInOrder("normalized", "after-load")

\* C9: every dispatched request carries, under the protected keys, the
\* values the coordinator built.
C9_ProtectedKeysKept ==
    \A r \in Pending : Only(r.query, ProtectedKeys) = Only(r.own, ProtectedKeys)

\* C10: no settlement ends with a rejected promise that nothing observes.
C10_NoUnobservedRejection == last.settle # "normfail"

\* the terms typed into the search input when two different terms matter
TwoTerms == SearchTerms \cup {<<"b">>}

SearchNext ==
    \/ \E h \in Hooks, u \in UrlOutcomes : InitWidget(h, u)
    \/ \E term \in TwoTerms, e \in BOOLEAN, h \in Hooks, u \in UrlOutcomes :
          KeyupSearch(term, e, h, u)
    \/ \E term \in TwoTerms \cup {<<>>} : InputChange(term)
    \/ \E h \in Hooks, u \in UrlOutcomes : CloseSearch(h, u)
    \/ \E p \in 1..pager, h \in Hooks, u \in UrlOutcomes : ClickPage(p, h, u)
    \/ \E h \in Hooks, u \in UrlOutcomes : MethodRefresh(h, u)
    \/ \E r \in Pending : \E k \in PayloadKinds, n \in TotalsOf(r) : AjaxSuccess(r, k, n)
    \/ \E r \in Pending : AjaxError(r)

\* the search of a widget that loads from a URL and has no queryParams hook
SearchSpec == NavInit /\ [][SearchNext]_vars

(***************************************************************************)
(* The date functions on their own.  getStartAndEndDateByView and the date   *)
(* computation of navigateForward / navigateBack read only the view, the     *)
(* date and settings.startWeekOnSunday of the data object; DateSpec draws    *)
(* these three from bounded sets and applies one of the functions to them.   *)
(***************************************************************************)
\* number of consecutive days the date is drawn from
ProbeDays == 103

\* 2023-12-25, so that the days run over the turn of a year, the ends of
\* January and March, and the leap day 2024-02-29
FirstProbeDay == MakeDay(2023, 11, 25)

\* with 2021-02-28, the last day of a non-leap February that is a Sunday
ProbeDates ==
    {FirstProbeDay + k : k \in 0..(ProbeDays - 1)} \cup {MakeDay(2021, 1, 28)}

ProbeViews == Views \cup {"search"}

ProbeSettings ==
    [url : {"string"}, queryParams : {FALSE}, startWeekOnSunday : BOOLEAN,
     views : {Views}, startView : {"month"}, startDate : {FirstProbeDay},
     storeState : {FALSE}, debug : {TRUE}, navigateOnWheel : {TRUE},
     holidays : {"none"}]

DateInit ==
    /\ phase = "probe"
    /\ settings \in ProbeSettings
    /\ view \in ProbeViews
    /\ lastView = "none"
    /\ date \in ProbeDates
    /\ searchMode = FALSE
    /\ searchPagination = DefaultPagination
    /\ loading = FALSE
    /\ xhr = 0
    /\ appointments = NoRows
    /\ searchInput = <<>>
    /\ container = "none"
    /\ rendered = NoRows
    /\ pager = 0
    /\ reqs = <<>>
    /\ inputs = 0
    /\ last = Idle
    /\ rapid = "none"
    /\ wrapperId = TRUE
    /\ storedView = "none"
    /\ searched = NoTerm
    /\ probe = NoProbe
    /\ NothingRunning

\* getStartAndEndDateByView is called and returns the period
Resolve ==
    /\ phase = "probe" /\ probe.op = "none"
    /\ probe' = [NoProbe EXCEPT !.op = "resolve", !.date = date,
                                !.period = getStartAndEndDateByView(
                                    view, date, settings.startWeekOnSunday)]
    /\ UNCHANGED <<phase, settings, view, lastView, date, searchMode,
                   searchPagination, loading, xhr, appointments, searchInput,
                   container, rendered, pager, reqs, inputs, last, rapid,
                   wrapperId, storedView, searched, loadingHolidays,
                   holidayLoads, indicator, timers, orphans>>

\* the switch of navigateForward (step = 1) or navigateBack (step = -1)
\* runs and data.date is assigned
StoreNavigated(op, step) ==
    /\ phase = "probe" /\ probe.op = "none"
    /\ view \in Views
    /\ date' = Navigated(view, date, step)
    /\ probe' = [NoProbe EXCEPT !.op = op, !.date = date]
    /\ UNCHANGED <<phase, settings, view, lastView, searchMode,
                   searchPagination, loading, xhr, appointments, searchInput,
                   container, rendered, pager, reqs, inputs, last, rapid,
                   wrapperId, storedView, searched, loadingHolidays,
                   holidayLoads, indicator, timers, orphans>>

StepForward == StoreNavigated("forward", 1)

StepBack == StoreNavigated("back", -1)

DateNext == Resolve \/ StepForward \/ StepBack

DateSpec == DateInit /\ [][DateNext]_vars

(***************************************************************************)
(* Properties of the date functions.                                         *)
(***************************************************************************)
\* the Date objects of the strings a resolved period holds
PeriodStart == parseDateString(probe.period.start)

PeriodEnd == parseDateString(probe.period.end)

PeriodDate == parseDateString(probe.period.date)

Resolved(v) == probe.op = "resolve" /\ view = v

\* C11: for every view (day, week, month, year, search), every date and both
\* week-start conventions, the resolved window contains the date:
\* start <= date <= end
C11_WindowContainsDate ==
    probe.op = "resolve" => PeriodStart <= PeriodDate /\ PeriodDate <= PeriodEnd

\* the first weekday of the configured week: 0 = Sunday, 1 = Monday
FirstWeekday == IF settings.startWeekOnSunday THEN 0 ELSE 1

\* the day d shifted back to the first weekday of its week
WeekStartOf(d) == d - FloorMod(getDay(d) - FirstWeekday, 7)

\* the day d shifted forward to the last weekday of its week
WeekEndOf(d) == WeekStartOf(d) + 6

FirstOfMonth(d) == MakeDay(getFullYear(d), getMonth(d), 1)

LastOfMonth(d) == MakeDay(getFullYear(d), getMonth(d) + 1, 0)

\* C12: in the month view the resolved window, counted inclusively from start
\* to end, is a whole number of weeks (a multiple of 7 days), for every date
\* and both week-start conventions
C12_MonthWindowWholeWeeks ==
    Resolved("month") => (PeriodEnd - PeriodStart + 1) % 7 = 0

\* C13: in the week view the start is the date shifted back to the configured
\* first weekday (Sunday if startWeekOnSunday, else Monday) and the end is six
\* days after the start
C13_WeekWindow ==
    Resolved("week") =>
        PeriodStart = WeekStartOf(probe.date) /\ PeriodEnd = PeriodStart + 6

\* C14: in the month view, for every date (days 29 to 31 included) and both
\* week-start conventions, the start is the first of the date's month shifted
\* back to the first weekday of its week, and the end is the last day of that
\* same month shifted forward to the last weekday of its week
C14_MonthWindow ==
    Resolved("month") =>
        /\ PeriodStart = WeekStartOf(FirstOfMonth(probe.date))
        /\ PeriodEnd = WeekEndOf(LastOfMonth(probe.date))

\* the day of the month dd exists in the month that lies step months from d
DayExists(d, step, dd) ==
    dd <= getDateOfMonth(MakeDay(getFullYear(d), getMonth(d) + step + 1, 0))

\* the date one unit of the view v from d, in the direction step
Shifted(v, d, step) ==
    CASE v = "day"  -> d + step
      [] v = "week" -> d + 7 * step
      [] v = "year" -> MakeDay(getFullYear(d) + step, getMonth(d),
                               getDateOfMonth(d))
      [] v = "month" ->
            MakeDay(getFullYear(d), getMonth(d) + step,
                    IF DayExists(d, step, getDateOfMonth(d))
                    THEN getDateOfMonth(d) ELSE 1)

\* C19: navigateBack and navigateForward shift the date by exactly one unit
\* of the active view: one day, seven days, one year, or to the adjacent
\* month, keeping the day of the month when it exists there and else taking
\* day 1 of that adjacent month
C19_OneUnitShift ==
    /\ probe.op = "forward" => date = Shifted(view, probe.date, 1)
    /\ probe.op = "back" => date = Shifted(view, probe.date, -1)

(***************************************************************************)
(* setView on its own.  Its callers only pass names of settings.views, which *)
(* normalizeSettings restricts to the four views; ViewSpec draws the data    *)
(* object, the gating settings, the stored preference and the name from      *)
(* bounded sets and applies setView once.                                    *)
(***************************************************************************)
\* view names given to setView: the four views, 'search', and two others
ViewNames == Views \cup {"search", "agenda", ""}

ViewSettings ==
    [url : {"string"}, queryParams : {FALSE}, startWeekOnSunday : {TRUE},
     views : {Views}, startView : {"month"}, startDate : {FirstProbeDay},
     storeState : BOOLEAN, debug : BOOLEAN, navigateOnWheel : {TRUE},
     holidays : {"none"}]

ViewInit ==
    /\ phase = "setView"
    /\ settings \in ViewSettings
    /\ view \in Views
    /\ lastView \in Views \cup {"none"}
    /\ date = FirstProbeDay
    /\ searchMode = FALSE
    /\ searchPagination = DefaultPagination
    /\ loading = FALSE
    /\ xhr = 0
    /\ appointments = NoRows
    /\ searchInput = <<>>
    /\ container = "calendar"
    /\ rendered = NoRows
    /\ pager = 0
    /\ reqs = <<>>
    /\ inputs = 0
    /\ last = Idle
    /\ rapid = "none"
    /\ wrapperId \in BOOLEAN
    /\ storedView \in (IF wrapperId THEN Views \cup {"none"} ELSE {"none"})
    /\ searched = NoTerm
    /\ probe = NoProbe
    /\ NothingRunning

\* setView($wrapper, name) is called and returns
ApplySetView(name) ==
    /\ phase = "setView" /\ probe.op = "none"
    /\ Commit(setView(Begin, name))
    /\ probe' = [NoProbe EXCEPT !.op = "setView", !.name = name,
                                !.view = view, !.lastView = lastView,
                                !.storedView = storedView]
    /\ UNCHANGED <<phase, inputs, rapid, searched, orphans>>

ViewNext == \E name \in ViewNames : ApplySetView(name)

ViewSpec == ViewInit /\ [][ViewNext]_vars

(***************************************************************************)
(* Properties of setView.                                                    *)
(***************************************************************************)
\* setView was called with the view that was active
SameView == probe.op = "setView" /\ probe.name = probe.view

\* setView was called with one of the four views, not the active one
OtherView ==
    probe.op = "setView" /\ probe.name \in Views /\ probe.name # probe.view

\* what saveToLocalStorage leaves in the store when given the value w
StoredAfter(w) ==
    IF settings.storeState /\ wrapperId THEN w
    ELSE IF ~settings.storeState /\ settings.debug /\ wrapperId THEN "none"
    ELSE probe.storedView

\* setView built nothing, fetched nothing and emitted no event
NothingBuilt ==
    /\ last.fetch = "none" /\ last.log = <<>>
    /\ container = "calendar" /\ reqs = <<>> /\ ~loading

\* C16: calling setView with the view that is already active changes no
\* state (view, lastView, persisted preference) and triggers no rebuild or
\* view event
C16_SameViewNoOp ==
    SameView =>
        /\ view = probe.view /\ lastView = probe.lastView
        /\ storedView = probe.storedView
        /\ NothingBuilt

\* C16 as the code has it: view and lastView are unchanged and nothing is
\* rebuilt or emitted, but the view is saved again: the stored preference
\* becomes the view when storing is enabled and the wrapper has an id, and is
\* removed when storing is disabled in debug mode
C16_SameViewSavedAgain ==
    SameView =>
        /\ view = probe.view /\ lastView = probe.lastView
        /\ storedView = StoredAfter(probe.view)
        /\ NothingBuilt

C16_Witness == SameView /\ storedView # probe.storedView /\ lastView # "none"

\* C17: setView(v) with a valid v different from the current view records
\* lastView = the previous view, sets view = v, and persists v to the
\* preference store
C17_ViewChangePersisted ==
    OtherView =>
        /\ lastView = probe.view /\ view = probe.name
        /\ storedView = probe.name

\* C17 as the code has it: v is persisted only when settings.storeState is
\* set and the wrapper has an id; with storeState off the store is left
\* alone, or in debug mode the stored view is removed
C17_ViewChangeGatedPersist ==
    OtherView =>
        /\ lastView = probe.view /\ view = probe.name
        /\ storedView = StoredAfter(probe.name)

C17_Witness ==
    /\ OtherView /\ settings.storeState /\ wrapperId
    /\ storedView = probe.name /\ probe.storedView # probe.name

NavigationInput ==
    \/ \E h \in Hooks, u \in UrlOutcomes : ClickNext(h, u) \/ ClickPrev(h, u)
    \/ NavigationEntries

\* the macrotask dispatched a request for a date window
DateWindowFetch ==
    last.fetch = "dispatched" /\ ~reqs[Len(reqs)].search

\* C15: while searchMode is true, no prev/next/today/setDate operation,
\* through any entry point (toolbar buttons, public methods, mouse wheel),
\* changes the date or the view or starts a fetch for a date window
C15_NavigationIgnoredInSearch ==
    [][(searchMode /\ NavigationInput) =>
           (date' = date /\ view' = view /\ ~DateWindowFetch')]_vars

\* the macrotask built and dispatched a search request
SearchBuilt == last.fetch = "dispatched" /\ reqs[Len(reqs)].search

\* the offset of the search request the macrotask built
BuiltOffset == reqs[Len(reqs)].own.offset

\* the term of the search request the macrotask built
BuiltTerm == reqs[Len(reqs)].own.search

\* C20: whenever search mode is exited, and whenever a new search term
\* begins, the pagination cursor is reset to {limit, offset: 0} before any
\* further search request is built: outside search mode the cursor is the
\* default one, and the first request built for a term carries offset 0
C20_PaginationReset ==
    [][/\ ~searchMode' => searchPagination' = DefaultPagination
       /\ (SearchBuilt' /\ BuiltTerm' # Chars(searched)) =>
              BuiltOffset' = Num(SearchOffset)]_vars

\* a keyup in the search input while it holds an empty (blank) term and the
\* search mode is off
EmptyTermKeyup ==
    /\ ~searchMode
    /\ \E term \in SearchTerms, e \in BOOLEAN, h \in Hooks, u \in UrlOutcomes :
           isValueEmpty(term) /\ KeyupSearch(term, e, h, u)

\* C21: entering search with an empty term is a no-op: it changes no view
\* state (view, last view, date, search mode, pagination) and starts no fetch
C21_EmptyTermNoOp ==
    [][EmptyTermKeyup =>
           /\ UNCHANGED <<view, lastView, date, searchMode, searchPagination>>
           /\ last'.fetch # "dispatched"]_vars

(***************************************************************************)
(* Properties of the teardown.                                               *)
(***************************************************************************)
\* C22: after destroy the data object of the widget is not on the wrapper,
\* and it stays absent when a request that was pending at the teardown
\* settles: from "destroyed" only the creation of a new widget leads on
C22_StateStaysAbsent ==
    [][phase = "destroyed" => phase' \in {"destroyed", "created"}]_vars

\* C23: an interval set by a widget that was destroyed never updates the
\* indicator again
C23_NoTickAfterDestroy ==
    [][OrphanTick => last'.tick # <<"destroyed", "updated">>]_vars

\* C24: no holiday load is started while another one of the widget is in
\* progress
C24_OneHolidayLoad == holidayLoads <= 1

\* a rebuild found the holiday load of an earlier rebuild in progress and
\* started none
C24_Witness == holidayLoads = 1 /\ last.holidays = "busy"

(***************************************************************************)
(* The normalisation of the appointments in detail.  A Date is the number of *)
(* seconds since 1970-01-01T00:00:00Z; what its getters read depends on the  *)
(* time zone of the host.  An appointment arrives with start and end as      *)
(* local date-time strings, modelled as [day, second].                       *)
(***************************************************************************)
SecondsOfDay == 24 * 3600

\* the time zone of the host: one without and one with daylight saving time
Zones == {"UTC", "Europe/Berlin"}

\* 2024-03-31T01:00:00Z: Europe/Berlin moves its clocks from 02:00 to 03:00
SpringForward == MakeDay(2024, 2, 31) * SecondsOfDay + 3600

\* 2024-04-25T22:00:00Z: Africa/Cairo moves its clocks from 00:00 to 01:00
\* on 2024-04-26, a day without a midnight
CairoForward == MakeDay(2024, 3, 25) * SecondsOfDay + 22 * 3600

\* seconds the local clock is ahead of UTC at the instant t
offset(zone, t) ==
    IF zone = "UTC" THEN 0
    ELSE IF zone = "Europe/Berlin"
    THEN IF t < SpringForward THEN 3600 ELSE 7200
    ELSE IF t < CairoForward THEN 7200 ELSE 10800

\* seconds the local clock of the zone is ahead of UTC in its summer
summerOffset(zone) ==
    IF zone = "UTC" THEN 0 ELSE IF zone = "Europe/Berlin" THEN 7200 ELSE 10800

\* getFullYear, getMonth and getDate of a Date together: its local day
localDay(zone, t) == FloorDiv(t + offset(zone, t), SecondsOfDay)

\* getHours, getMinutes and getSeconds of a Date together
localSecond(zone, t) == FloorMod(t + offset(zone, t), SecondsOfDay)

\* new Date(year, month, day, h, m, s), and new Date(string) of a local
\* date-time string: the instant at which the local clock reads so; a
\* time the clocks skip is taken with the offset before the change
localDate(zone, day, second) ==
    day * SecondsOfDay + second
        - offset(zone, day * SecondsOfDay + second - summerOffset(zone))

EndOfDay == 23 * 3600 + 59 * 60 + 59

\* cleanAppointments on one appointment: start and end are parsed, and an
\* all-day appointment is set to the whole of its first and last day
cleanAppointment(zone, a) ==
    IF a.allDay
    THEN [a EXCEPT !.start = localDate(zone, localDay(zone, localDate(
                                 zone, a.start.day, a.start.second)), 0),
                   !.end = localDate(zone, localDay(zone, localDate(
                               zone, a.end.day, a.end.second)), EndOfDay)]
    ELSE [a EXCEPT !.start = localDate(zone, a.start.day, a.start.second),
                   !.end = localDate(zone, a.end.day, a.end.second)]

cleanAppointments(zone, rows) ==
    [i \in 1..Len(rows) |-> cleanAppointment(zone, rows[i])]

\* the comparator of sortAppointmentByStart
compareByStart(a, b, sortAllDay) ==
    IF sortAllDay /\ a.allDay /\ ~b.allDay THEN -1
    ELSE IF sortAllDay /\ ~a.allDay /\ b.allDay THEN 1
    ELSE a.start - b.start

\* a comparator that leaves every pair in place
compareNothing(a, b, sortAllDay) == 0

\* Array.prototype.sort is stable: a is put behind the last element of the
\* sorted rows that must not follow it
RECURSIVE InsertSorted(_, _, _)
InsertSorted(sorted, a, sortAllDay) ==
    IF sorted = <<>> THEN <<a>>
    ELSE IF compareByStart(sorted[Len(sorted)], a, sortAllDay) <= 0
    THEN Append(sorted, a)
    ELSE Append(InsertSorted(SubSeq(sorted, 1, Len(sorted) - 1), a, sortAllDay),
                sorted[Len(sorted)])

RECURSIVE sortAppointmentByStart(_, _)
sortAppointmentByStart(rows, sortAllDay) ==
    IF rows = <<>> THEN <<>>
    ELSE InsertSorted(sortAppointmentByStart(SubSeq(rows, 1, Len(rows) - 1),
                                             sortAllDay),
                      rows[Len(rows)], sortAllDay)

\* extras.duration.days of setAppointmentExtras
durationDays(zone, a) ==
    IF a.allDay
    THEN FloorDiv(localDate(zone, localDay(zone, a.end), 0)
                    - localDate(zone, localDay(zone, a.start), 0),
                  SecondsOfDay) + 1
    ELSE FloorDiv(a.end - a.start, SecondsOfDay)

\* the rows an answer holds, each with its place in the answer
Placed(rows) ==
    [i \in 1..Len(rows) |-> [id |-> i, allDay |-> rows[i].allDay,
                             start |-> rows[i].start, end |-> rows[i].end,
                             days |-> 0]]

\* the branch of checkAndSetAppointments for a view other than the year
\* view: clean, sort, set the extras
normalized(zone, rows, inSearchMode) ==
    LET sorted == sortAppointmentByStart(cleanAppointments(zone, Placed(rows)),
                                         ~inSearchMode)
    IN [i \in 1..Len(sorted) |->
           [sorted[i] EXCEPT !.days = durationDays(zone, sorted[i])]]

\* the variables a function applied on its own leaves alone
standing ==
    <<phase, settings, view, lastView, date, searchMode, searchPagination,
      loading, xhr, searchInput, container, rendered, pager, reqs, inputs, last,
      rapid, wrapperId, storedView, searched, loadingHolidays, holidayLoads,
      indicator, timers, orphans>>

\* a widget at rest in the state ph with settings of space, but for view,
\* date, searchMode, appointments and probe
AtRest(ph, space) ==
    /\ phase = ph
    /\ settings \in space
    /\ lastView = "none"
    /\ searchPagination = DefaultPagination
    /\ loading = FALSE
    /\ xhr = 0
    /\ searchInput = <<>>
    /\ container = "calendar"
    /\ rendered = NoRows
    /\ pager = 0
    /\ reqs = <<>>
    /\ inputs = 0
    /\ last = Idle
    /\ rapid = "none"
    /\ wrapperId = TRUE
    /\ storedView = "none"
    /\ searched = NoTerm
    /\ NothingRunning

\* rows of at most this many appointments are normalised
MaxRows == 3

\* the days around the change of the clocks: 2024-03-31 and 2024-04-01
NormDays == {MakeDay(2024, 2, 31), MakeDay(2024, 3, 1)}

\* appointments from 08:00 on one day to 17:00 on the same or a later day
NormRows ==
    {r \in {[allDay |-> b, start |-> [day |-> d, second |-> 8 * 3600],
             end |-> [day |-> e, second |-> 17 * 3600]] :
                b \in BOOLEAN, d \in NormDays, e \in NormDays} :
        r.end.day >= r.start.day}

NormInit ==
    /\ AtRest("normalize", ProbeSettings)
    /\ view = "month"
    /\ date = MakeDay(2024, 2, 31)
    /\ searchMode \in BOOLEAN
    /\ appointments \in UNION {[1..n -> NormRows] : n \in 1..MaxRows}
    /\ \E z \in Zones : probe = [op |-> "none", zone |-> z, input |-> <<>>]

\* checkAndSetAppointments is called with the rows of an answer
ApplyNormalize ==
    /\ phase = "normalize" /\ probe.op = "none"
    /\ appointments' = normalized(probe.zone, appointments, searchMode)
    /\ probe' = [probe EXCEPT !.op = "normalize", !.input = appointments]
    /\ UNCHANGED standing

NormSpec == NormInit /\ [][ApplyNormalize]_vars

(***************************************************************************)
(* Properties of the normalisation.                                          *)
(***************************************************************************)
\* the rows are in the order of the comparator with all-day rows first
AllDayFirstByStart ==
    \A i, j \in 1..Len(appointments) :
        i < j => /\ appointments[i].allDay \/ ~appointments[j].allDay
                 /\ appointments[i].allDay = appointments[j].allDay
                        => appointments[i].start <= appointments[j].start

\* the rows are in the order of the answer
ServerOrder == \A i \in 1..Len(appointments) : appointments[i].id = i

\* C25: the normalised appointments are ordered ascending by start with
\* the all-day ones first, except in the search mode, where they keep the
\* order of the answer
C25_OrderedUnlessSearch ==
    probe.op = "normalize" =>
        IF searchMode THEN ServerOrder ELSE AllDayFirstByStart

\* C30: a normalised all-day appointment starts at 00:00:00 of its first
\* day, ends at 23:59:59 of its last day, and its duration counts the
\* calendar days from the first to the last
C30_AllDayWholeDays ==
    probe.op = "normalize" =>
        \A i \in 1..Len(appointments) :
            appointments[i].allDay =>
                LET a == appointments[i]
                    given == probe.input[a.id]
                IN /\ localDay(probe.zone, a.start) = given.start.day
                   /\ localSecond(probe.zone, a.start) = 0
                   /\ localDay(probe.zone, a.end) = given.end.day
                   /\ localSecond(probe.zone, a.end) = EndOfDay
                   /\ a.days = given.end.day - given.start.day + 1

(***************************************************************************)
(* The display dates of an appointment: one segment for each day from its    *)
(* first to its last.  Here a Date at midnight is a day number again, and an *)
(* appointment is [start, end], the days of its start and end.               *)
(***************************************************************************)
\* the padded grid of the month of now, as setAppointmentExtras computes it
monthGridOfNow(now, startWeekOnSunday) ==
    [start |-> addDays(MakeDay(getFullYear(now), getMonth(now), 1),
                       -((getDay(MakeDay(getFullYear(now), getMonth(now), 1))
                            - (IF startWeekOnSunday THEN 0 ELSE 1) + 7) % 7)),
     end |-> addDays(MakeDay(getFullYear(now), getMonth(now) + 1, 0),
                     6 - ((getDay(MakeDay(getFullYear(now), getMonth(now) + 1, 0))
                             - (IF startWeekOnSunday THEN 0 ELSE 1) + 7) % 7))]

\* the first day of the week of tempDate
weekRangeStart(tempDate, startWeekOnSunday) ==
    addDays(tempDate, -(IF startWeekOnSunday THEN getDay(tempDate)
                        ELSE (IF getDay(tempDate) = 0 THEN 7
                              ELSE getDay(tempDate)) - 1))

\* the dateDetails object of the segment on tempDate; the week range ends
\* a millisecond before its eighth day
dateDetails(tempDate, grid, weekStart) ==
    [date |-> tempDate,
     day |-> getDay(tempDate),
     visibleInWeek |-> tempDate >= weekStart /\ tempDate <= weekStart + 6,
     visibleInMonth |-> tempDate >= grid.start /\ tempDate <= grid.end]

\* extras.displayDates of setAppointmentExtras
displayDates(a, now, startWeekOnSunday) ==
    [i \in 1..(a.end - a.start + 1) |->
        dateDetails(a.start + i - 1, monthGridOfNow(now, startWeekOnSunday),
                    weekRangeStart(a.start + i - 1, startWeekOnSunday))]

\* an appointment lasts at most this many days beyond its first
MaxSpan == 1

\* the dates the widget shows: 2024-02-15 (the day of now) and 2024-03-15
ShownDates == {Today, MakeDay(2024, 2, 15)}

ExtrasInit ==
    /\ AtRest("extras", ProbeSettings)
    /\ view \in {"week", "month"}
    /\ date \in ShownDates
    /\ searchMode = FALSE
    /\ \E d \in ProbeDates, n \in 0..MaxSpan :
           appointments = <<[start |-> d, end |-> d + n, displayDates |-> <<>>]>>
    /\ probe = [op |-> "none"]

\* setAppointmentExtras is called on the appointments
ApplyExtras ==
    /\ phase = "extras" /\ probe.op = "none"
    /\ appointments' =
           [i \in 1..Len(appointments) |->
               [appointments[i] EXCEPT !.displayDates =
                   displayDates(appointments[i], Today,
                                settings.startWeekOnSunday)]]
    /\ probe' = [op |-> "extras"]
    /\ UNCHANGED standing

ExtrasSpec == ExtrasInit /\ [][ApplyExtras]_vars

\* the day d lies in the week, or the padded month grid, the widget shows
InShownWindow(d) ==
    /\ d >= getStartAndEndDays(view, date, settings.startWeekOnSunday).start
    /\ d <= getStartAndEndDays(view, date, settings.startWeekOnSunday).end

\* C26: the visibleInWeek (visibleInMonth) flag of a segment is true
\* exactly when the day of the segment lies in the week (the padded month
\* grid) the widget shows
C26_VisibleIffShown ==
    probe.op = "extras" =>
        \A i \in 1..Len(appointments) :
            \A k \in 1..Len(appointments[i].displayDates) :
                LET seg == appointments[i].displayDates[k]
                IN IF view = "week"
                   THEN seg.visibleInWeek <=> InShownWindow(seg.date)
                   ELSE seg.visibleInMonth <=> InShownWindow(seg.date)

(***************************************************************************)
(* The packing of the segments of one weekday into columns.  A segment is    *)
(* [id, start, end] with the times in minutes of the day; id stands for the  *)
(* identity of the object.                                                   *)
(***************************************************************************)
\* a test that lets every segment into every column
doesNotOverlapAlways(column, newAppointment) == TRUE

doesNotOverlap(column, newAppointment) ==
    \A i \in 1..Len(column) :
        newAppointment.start >= column[i].end
            \/ newAppointment.end <= column[i].start

\* the hasOverlap test over all the segments of the weekday
hasOverlap(all, a) ==
    \E i \in 1..Len(all) :
        /\ all[i].id # a.id
        /\ ~(a.start >= all[i].end \/ a.end <= all[i].start)

\* a test that marks every segment that found no column
fullWidthAlways(g, all, a) == TRUE

\* the test for fullWidth of a segment that found no column
fullWidthTest(g, all, a) == ~hasOverlap(all, a) /\ Len(g.columns) = 0

\* the columns that take the segment a, in the order of the loop
fitting(g, a) == {k \in 1..Len(g.columns) : doesNotOverlap(g.columns[k], a)}

\* a placed segment keeps the number of columns there were when it was
\* placed
placed(g, a) ==
    [id |-> a.id, start |-> a.start, end |-> a.end,
     columnsBefore |-> Len(g.columns)]

\* one pass of the forEach over the sorted segments
place(g, all, a) ==
    IF fitting(g, a) # {}
    THEN [g EXCEPT !.columns[CHOOSE k \in fitting(g, a) :
                                 \A m \in fitting(g, a) : k <= m] =
                       Append(@, placed(g, a))]
    ELSE IF fullWidthTest(g, all, a)
    THEN [g EXCEPT !.fullWidth =
                       Append(@, placed(g, a))]
    ELSE [g EXCEPT !.columns =
                       Append(@, <<placed(g, a)>>)]

RECURSIVE placeAll(_, _, _)
placeAll(g, all, n) ==
    IF n = 0 THEN g ELSE place(placeAll(g, all, n - 1), all, all[n])

\* step 2 of groupOverlappingAppointments for one weekday: the segments
\* are sorted by start and placed one after the other
packWeekday(segments) ==
    placeAll([columns |-> <<>>, fullWidth |-> <<>>],
             sortAppointmentByStart(segments, FALSE), Len(segments))

\* a weekday holds at most this many segments
MaxSegments == 3

\* 09:00, 09:30, 10:00, 10:30 and 11:00 as minutes of the day
SlotTimes == {9 * 60, 9 * 60 + 30, 10 * 60, 10 * 60 + 30, 11 * 60}

Segments ==
    {s \in [start : SlotTimes, end : SlotTimes, allDay : {FALSE}] :
        s.start < s.end}

PackInit ==
    /\ AtRest("pack", ProbeSettings)
    /\ view = "week"
    /\ date = Today
    /\ searchMode = FALSE
    /\ \E n \in 1..MaxSegments : \E f \in [1..n -> Segments] :
           appointments = [i \in 1..n |-> [id |-> i, start |-> f[i].start,
                                           end |-> f[i].end,
                                           allDay |-> FALSE]]
    /\ probe = [op |-> "none", columns |-> <<>>, fullWidth |-> <<>>]

\* groupOverlappingAppointments packs the segments of the weekday
ApplyPack ==
    /\ phase = "pack" /\ probe.op = "none"
    /\ probe' = [op |-> "pack",
                 columns |-> packWeekday(appointments).columns,
                 fullWidth |-> packWeekday(appointments).fullWidth]
    /\ UNCHANGED <<appointments, standing>>

PackSpec == PackInit /\ [][ApplyPack]_vars

(***************************************************************************)
(* Properties of the packing.                                                *)
(***************************************************************************)
\* the two segments share more than a point of time
Overlap(a, b) == a.start < b.end /\ b.start < a.end

\* the columns that hold the segment a
ColumnsOf(a) ==
    {k \in 1..Len(probe.columns) :
        \E i \in 1..Len(probe.columns[k]) : probe.columns[k][i].id = a.id}

\* the entries of fullWidth that hold the segment a
FullWidthOf(a) ==
    {i \in 1..Len(probe.fullWidth) : probe.fullWidth[i].id = a.id}

Group == {appointments[i] : i \in 1..Len(appointments)}

\* C27: after the packing of a weekday no two segments of one column
\* overlap, and two segments that overlap are in different columns
C27_ColumnsDisjoint ==
    probe.op = "pack" =>
        /\ \A k \in 1..Len(probe.columns) :
               \A i, j \in 1..Len(probe.columns[k]) :
                   i # j => ~Overlap(probe.columns[k][i], probe.columns[k][j])
        /\ \A a, b \in Group :
               a.id # b.id /\ Overlap(a, b) =>
                   /\ ColumnsOf(a) # {} /\ ColumnsOf(b) # {}
                   /\ ColumnsOf(a) \cap ColumnsOf(b) = {}

\* three segments were packed: two that overlap, and a third that shares
\* a column with one of them
C27_Witness ==
    /\ probe.op = "pack"
    /\ \E a, b \in Group : a.id # b.id /\ Overlap(a, b)
    /\ \E k \in 1..Len(probe.columns) : Len(probe.columns[k]) = 2

\* C28: a segment is marked full-width only if it overlaps no other
\* segment of its weekday and no column existed when it was placed; every
\* other segment is in one column
C28_FullWidthOnlyAlone ==
    probe.op = "pack" =>
        \A a \in Group :
            IF FullWidthOf(a) # {}
            THEN /\ \A b \in Group : b.id # a.id => ~Overlap(a, b)
                 /\ \A i \in FullWidthOf(a) : probe.fullWidth[i].columnsBefore = 0
                 /\ ColumnsOf(a) = {}
            ELSE Cardinality(ColumnsOf(a)) = 1

\* a weekday was packed into a full-width segment and columns
C28_Witness ==
    /\ probe.op = "pack"
    /\ Len(probe.fullWidth) = 1
    /\ Len(probe.columns) = 2

(***************************************************************************)
(* The position of a time slot.  A pixel length is kept as sixty times its   *)
(* value, so that the minutes of an hour divide exactly.                     *)
(***************************************************************************)
Larger(a, b) == IF a >= b THEN a ELSE b

Smaller(a, b) == IF a <= b THEN a ELSE b

\* calculateSlotPosition with an end date, from the hours and minutes of
\* the two dates on
calculateSlotPosition(hourSlots, startHours, startMinutes, endHours, endMinutes) ==
    IF \/ startHours < hourSlots.start
            /\ (endHours = 0 \/ endHours <= hourSlots.start)
       \/ startHours >= hourSlots.end
    THEN [top |-> 0, height |-> 0]
    ELSE [top |->
              (Larger(startHours, hourSlots.start) - hourSlots.start) * 60
                      * hourSlots.height
                  + (IF startHours < hourSlots.start THEN 0 ELSE startMinutes)
                      * hourSlots.height,
          height |->
              Larger(0,
                  ((Smaller(endHours, hourSlots.end) * 60
                      + (IF endHours >= hourSlots.end THEN 0 ELSE endMinutes))
                   - (Larger(startHours, hourSlots.start) * 60
                      + (IF startHours < hourSlots.start THEN 0
                         ELSE startMinutes)))
                  * hourSlots.height)]

\* settings.hourSlots: the default, and a working day of rows 40 px high
HourSlots ==
    {[start |-> 0, end |-> 24, height |-> 30],
     [start |-> 8, end |-> 18, height |-> 40]}

SlotSettings ==
    [url : {"string"}, queryParams : {FALSE}, startWeekOnSunday : {TRUE},
     views : {Views}, startView : {"day"}, startDate : {Today},
     storeState : {FALSE}, debug : {TRUE}, navigateOnWheel : {TRUE},
     holidays : {"none"}, hourSlots : HourSlots]

\* times of the day around the edges of the working day, in minutes
SlotMinutes ==
    {h * 60 + m : h \in {0, 7, 8, 9, 17, 18, 19, 23}, m \in {0, 30}}

SlotInit ==
    /\ AtRest("slot", SlotSettings)
    /\ view = "day"
    /\ date = Today
    /\ searchMode = FALSE
    /\ appointments = NoRows
    /\ \E s \in SlotMinutes, e \in SlotMinutes :
           /\ s < e
           /\ probe = [op |-> "none", start |-> s, end |-> e,
                       top |-> 0, height |-> 0]

\* calculateSlotPosition is called with two dates of one day
ApplySlot ==
    /\ phase = "slot" /\ probe.op = "none"
    /\ probe' = [probe EXCEPT
                    !.op = "slot",
                    !.top = calculateSlotPosition(
                                settings.hourSlots, probe.start \div 60,
                                probe.start % 60, probe.end \div 60,
                                probe.end % 60).top,
                    !.height = calculateSlotPosition(
                                   settings.hourSlots, probe.start \div 60,
                                   probe.start % 60, probe.end \div 60,
                                   probe.end % 60).height]
    /\ UNCHANGED <<appointments, standing>>

SlotSpec == SlotInit /\ [][ApplySlot]_vars

\* the interval clipped to the visible hours, in minutes of the day
ClippedStart == Larger(probe.start, settings.hourSlots.start * 60)

ClippedEnd == Smaller(probe.end, settings.hourSlots.end * 60)

\* C29: the slot of an interval that reaches into the visible hours has
\* its top at the clipped start, measured from the first visible hour, and
\* the height of the clipped duration, each at the height of a row per
\* hour; an interval outside the visible hours has the height 0
C29_SlotOfClippedInterval ==
    probe.op = "slot" =>
        IF ClippedStart < ClippedEnd
        THEN /\ probe.top = (ClippedStart - settings.hourSlots.start * 60)
                                * settings.hourSlots.height
             /\ probe.height = (ClippedEnd - ClippedStart)
                                   * settings.hourSlots.height
        ELSE probe.height = 0

(***************************************************************************)
(* The year view on its own: checkAndSetAppointments keeps the records of   *)
(* an answer that have a date and a positive total.  A value of a record is *)
(* a typed value as in a request object; a key that is missing has the type *)
(* "undefined".                                                              *)
(***************************************************************************)
Undefined == [t |-> "undefined", s |-> "", n |-> 0, cs |-> <<>>]

NaN == [nan |-> TRUE, n |-> 0]

IsDigit(c) == \E k \in 1..10 : DigitChars[k] = c

\* String(v) of a string or of a natural number
StringOf(v) == IF v.t = "number" THEN NatToChars(v.n) ELSE v.cs

RECURSIVE trimStart(_)
trimStart(cs) ==
    IF cs # <<>> /\ Head(cs) = " " THEN trimStart(Tail(cs)) ELSE cs

RECURSIVE leadingDigits(_)
\* the longest prefix of digits
leadingDigits(cs) ==
    IF cs = <<>> \/ ~IsDigit(Head(cs)) THEN <<>>
    ELSE <<Head(cs)>> \o leadingDigits(Tail(cs))

\* the digits parseInt reads after the blanks and the sign
signedBody(cs) ==
    IF cs # <<>> /\ Head(cs) \in {"-", "+"} THEN Tail(cs) ELSE cs

\* parseInt(String(v)): blanks, a sign, then digits up to the first other
\* character; NaN without a digit
parseInt(cs) ==
    IF leadingDigits(signedBody(trimStart(cs))) = <<>> THEN NaN
    ELSE [nan |-> FALSE,
          n   |-> IF trimStart(cs)[1] = "-"
                  THEN 0 - CharsToNat(leadingDigits(signedBody(trimStart(cs))))
                  ELSE CharsToNat(leadingDigits(signedBody(trimStart(cs))))]

\* !isNaN(Date.parse(s)) of a string in the form YYYY-MM-DD; any other
\* string of the model is no date
dateParses(cs) ==
    /\ Len(cs) = 10
    /\ \A i \in {1, 2, 3, 4, 6, 7, 9, 10} : IsDigit(cs[i])
    /\ cs[5] = "-" /\ cs[8] = "-"
    /\ CharsToNat(SubSeq(cs, 6, 7)) \in 1..12
    /\ CharsToNat(SubSeq(cs, 9, 10)) \in 1..31

isValidDate(r) == r.date.t # "undefined" /\ dateParses(StringOf(r.date))

AnyTotal(r) == r.total.t # "undefined"

isValidTotal(r) ==
    /\ r.total.t # "undefined"
    /\ ~parseInt(StringOf(r.total)).nan
    /\ parseInt(StringOf(r.total)).n > 0

\* the filter and the map of the year branch; the colours and the flags
\* of extras are not kept in the model
processedAppointments(rows) ==
    [i \in DOMAIN SelectSeq(rows, LAMBDA r : isValidDate(r) /\ isValidTotal(r)) |->
        [SelectSeq(rows, LAMBDA r : isValidDate(r) /\ isValidTotal(r))[i]
            EXCEPT !.total = Num(parseInt(StringOf(@)).n)]]

\* at most this many records are in an answer for the year
MaxYearRows == 2

YearDates ==
    {Undefined, Chars(<<"s", "o", "o", "n">>),
     Chars(formatDateToDateString(Today)),
     Chars(<<"2", "0", "2", "4", "-", "1", "3", "-", "4", "5">>)}

YearTotals ==
    {Undefined, Num(0), Num(5), Chars(<<"0">>), Chars(<<"5">>),
     Chars(<<"-", "3">>), Chars(<<"0", ".", "5">>), Chars(<<"1", ".", "5">>),
     Chars(<<" ", "7">>), Chars(<<"n", "o">>)}

YearRecords == [date : YearDates, total : YearTotals]

YearSettings ==
    [url : {"string"}, queryParams : {FALSE}, startWeekOnSunday : {TRUE},
     views : {Views}, startView : {"year"}, startDate : {Today},
     storeState : {FALSE}, debug : {TRUE}, navigateOnWheel : {TRUE},
     holidays : {"none"}]

YearInit ==
    /\ AtRest("year", YearSettings)
    /\ view = "year"
    /\ date = Today
    /\ searchMode = FALSE
    /\ appointments \in UNION {[1..n -> YearRecords] : n \in 0..MaxYearRows}
    /\ probe = [op |-> "none", input |-> <<>>]

\* checkAndSetAppointments is called with the rows of an answer for the year
ApplyYear ==
    /\ phase = "year" /\ probe.op = "none"
    /\ appointments' = IF Len(appointments) > 0
                       THEN processedAppointments(appointments)
                       ELSE <<>>
    /\ probe' = [op |-> "year", input |-> appointments]
    /\ UNCHANGED standing

YearSpec == YearInit /\ [][ApplyYear]_vars

\* total > 0 as the language compares a number or a decimal string with 0
RECURSIVE allDigits(_)
allDigits(cs) == cs = <<>> \/ (IsDigit(Head(cs)) /\ allDigits(Tail(cs)))

fractionOf(cs) ==
    IF \E i \in 1..Len(cs) : cs[i] = "."
    THEN SubSeq(cs, (CHOOSE i \in 1..Len(cs) : cs[i] = ".") + 1, Len(cs))
    ELSE <<>>

wholeOf(cs) ==
    IF \E i \in 1..Len(cs) : cs[i] = "."
    THEN SubSeq(cs, 1, (CHOOSE i \in 1..Len(cs) : cs[i] = ".") - 1)
    ELSE cs

greaterThanZero(v) ==
    /\ v.t # "undefined"
    /\ trim(StringOf(v)) # <<>>
    /\ allDigits(wholeOf(trim(StringOf(v))))
    /\ allDigits(fractionOf(trim(StringOf(v))))
    /\ \E i \in 1..Len(StringOf(v)) :
           IsDigit(StringOf(v)[i]) /\ StringOf(v)[i] # "0"

\* the dates of the records, in order
datesOf(rows) == [i \in DOMAIN rows |-> rows[i].date]

setHoursZero(zone, t) == localDate(zone, localDay(zone, t), 0)

\* d.setDate(d.getDate() + 1): the same local time on the next day
setDateNext(zone, t) ==
    localDate(zone, localDay(zone, t) + 1, localSecond(zone, t))

RECURSIVE loopDays(_, _, _)
\* while (tempDate <= tempEnd): the local day of every dateDetails pushed
loopDays(zone, tempDate, tempEnd) ==
    IF tempDate <= tempEnd
    THEN <<localDay(zone, tempDate)>>
             \o loopDays(zone, setDateNext(zone, tempDate), tempEnd)
    ELSE <<>>

\* the days of extras.displayDates of an appointment from start to end
segmentDays(zone, start, end) ==
    loopDays(zone, setHoursZero(zone, start), setHoursZero(zone, end))

SegmentZones == Zones \cup {"Africa/Cairo"}

\* the days around the two changes of the clocks
SegmentDates ==
    {MakeDay(2024, 2, 30), MakeDay(2024, 2, 31), MakeDay(2024, 3, 1),
     MakeDay(2024, 3, 25), MakeDay(2024, 3, 26), MakeDay(2024, 3, 27)}

SegmentSeconds == {0, 10 * 3600, EndOfDay}

SegmentInit ==
    /\ AtRest("segments", ProbeSettings)
    /\ view = "month"
    /\ date = Today
    /\ searchMode = FALSE
    /\ \E z \in SegmentZones, d \in SegmentDates, e \in SegmentDates,
          s \in SegmentSeconds, u \in SegmentSeconds :
           /\ d < e \/ (d = e /\ s <= u)
           /\ probe = [op |-> "none", zone |-> z]
           /\ appointments = <<[start |-> localDate(z, d, s),
                                end |-> localDate(z, e, u),
                                displayDates |-> <<>>]>>

\* setAppointmentExtras is called on the appointment
ApplySegments ==
    /\ phase = "segments" /\ probe.op = "none"
    /\ appointments' =
           [i \in 1..Len(appointments) |->
               [appointments[i] EXCEPT !.displayDates =
                   segmentDays(probe.zone, appointments[i].start,
                               appointments[i].end)]]
    /\ probe' = [probe EXCEPT !.op = "segments"]
    /\ UNCHANGED standing

SegmentSpec == SegmentInit /\ [][ApplySegments]_vars

\* C32: an appointment that starts on one local day and ends on the same or
\* a later one has one segment for each day from the first to the last, in
\* order: as many segments as days it touches
C32_OneSegmentPerDay ==
    probe.op = "segments" =>
        \A i \in DOMAIN appointments :
            appointments[i].displayDates =
                [k \in 1..(localDay(probe.zone, appointments[i].end)
                             - localDay(probe.zone, appointments[i].start) + 1)
                    |-> localDay(probe.zone, appointments[i].start) + k - 1]

(***************************************************************************)
(* Properties of the widget at rest.                                         *)
(***************************************************************************)
\* the busy flag is false and no request is outstanding
Quiescent == ~loading /\ reqs = <<>>

\* C33: when the widget is at rest after an answer was applied, the answer
\* stored and drawn is the answer to the request its present state would
\* build: of the present view and window, or of the present search term and
\* offset
C33_AtRestShowsCurrent ==
    (Quiescent /\ last.settle = "applied") => last.own = RequestData(Cur)

(***************************************************************************)
(* The days the week view and the month view draw.                           *)
(***************************************************************************)
\* buildWeekView: startOfWeek and endOfWeek, the first and the last of the
\* seven columns
weekGrid(d, startWeekOnSunday) ==
    [start |-> addDays(d, -(IF startWeekOnSunday THEN getDay(d)
                            ELSE IF getDay(d) = 0 THEN 6 ELSE getDay(d) - 1)),
     end |-> addDays(addDays(d, -(IF startWeekOnSunday THEN getDay(d)
                                  ELSE IF getDay(d) = 0 THEN 6
                                  ELSE getDay(d) - 1)), 6)]

RECURSIVE calendarStart(_, _)
\* buildMonthView: back from the first of the month to the first weekday
calendarStart(d, startWeekOnSunday) ==
    IF getDay(d) # (IF startWeekOnSunday THEN 0 ELSE 1)
    THEN calendarStart(addDays(d, -1), startWeekOnSunday)
    ELSE d

RECURSIVE calendarEnd(_, _)
\* buildMonthView: on from the last of the month to the last weekday
calendarEnd(d, startWeekOnSunday) ==
    IF getDay(d) # (IF startWeekOnSunday THEN 6 ELSE 0)
    THEN calendarEnd(addDays(d, 1), startWeekOnSunday)
    ELSE d

\* buildMonthView: the rows of seven cells from calendarStart to calendarEnd
monthGrid(d, startWeekOnSunday) ==
    [start |-> calendarStart(MakeDay(getFullYear(d), getMonth(d), 1),
                             startWeekOnSunday),
     end |-> calendarEnd(MakeDay(getFullYear(d), getMonth(d) + 1, 0),
                         startWeekOnSunday)]

\* the grid the present view draws for the present date
GridDrawn ==
    IF view = "week" THEN weekGrid(date, settings.startWeekOnSunday)
    ELSE monthGrid(date, settings.startWeekOnSunday)

\* C34: in the week and the month view the fromDate and toDate of the
\* request are the first and the last day of the grid that is drawn, for
\* every date and both starts of the week
C34_WindowIsGrid ==
    (probe.op = "resolve" /\ view \in {"week", "month"}) =>
        /\ probe.period.start = formatDateToDateString(GridDrawn.start)
        /\ probe.period.end = formatDateToDateString(GridDrawn.end)

\* C35: over the rebuilds of one widget at most one interval that updates
\* the indicator of the current time is set and not yet cleared
C35_OneTimer == phase = "ready" => timers <= 1

\* C36: the guard of loadHolidays is set only while a promise chain is in
\* flight whose finally handler clears it, whatever the source of the
\* holidays is: no load returns with the guard set and nothing left to
\* clear it
C36_GuardCleared == loadingHolidays => holidayLoads > 0

(***************************************************************************)
(* The public methods refresh, setDate and updateOptions called with an      *)
(* object.  settings.view is the key refresh writes.                         *)
(***************************************************************************)
\* a Date instance of the day n
DateValue(n) == [t |-> "date", s |-> "", n |-> n, cs |-> <<>>]

\* methodRefresh: a view of settings.views that is not the active one is
\* stored under settings.view, and the view is built
methodRefresh(s, object, hook, urlOutcome) ==
    buildByView(IF /\ "view" \in DOMAIN object
                   /\ object.view \in s.settings.views
                   /\ s.view # object.view
                THEN [s EXCEPT !.settings.view = object.view]
                ELSE s,
                hook, urlOutcome)

\* prepareDate: the name object is not declared in it.  typeof object is
\* "undefined", so a string is returned as it is; with a Date instance the
\* assignment date = object reads the name and throws a ReferenceError
prepareDateThrows(value) == value.t = "date"

\* setDate: a string is parsed, a Date instance is stored
setDate(s, value) ==
    IF value.t = "string" THEN [s EXCEPT !.date = parseDateString(value.cs)]
    ELSE IF value.t = "date" THEN [s EXCEPT !.date = value.n]
    ELSE s

\* prepareParamsForMethodSetDate on an object: the view is taken when it
\* is one of settings.views and not the active one
preparedView(s, object) ==
    IF /\ "view" \in DOMAIN object
       /\ object.view \in s.settings.views
       /\ s.view # object.view
    THEN object.view ELSE "none"

\* methodSetDate called with an object that has a date
methodSetDateObject(s, object, hook, urlOutcome) ==
    IF prepareDateThrows(object.date)
    THEN [s EXCEPT !.last.error = "ReferenceError"]
    ELSE buildByView(setDate(IF preparedView(s, object) # "none"
                             THEN setView(s, preparedView(s, object))
                             ELSE s,
                             object.date),
                     hook, urlOutcome)

\* normalizeSettings on the views array: duplicates and unknown names are
\* dropped, and all four views are taken when nothing is left
normalizeViews(array) ==
    IF {array[i] : i \in DOMAIN array} \cap Views = {} THEN Views
    ELSE {array[i] : i \in DOMAIN array} \cap Views

\* $.extend(true, {}, prevSettings, options) and normalizeSettings.  The
\* arrays are merged index by index; the views array of the options is no
\* shorter than the present one, so every index is overwritten
mergedSettings(s, options) ==
    [s.settings EXCEPT
        !.views = IF "views" \in DOMAIN options
                  THEN normalizeViews(options.views) ELSE @,
        !.startView = IF "startView" \in DOMAIN options
                      THEN options.startView ELSE @]

\* methodUpdateOptions with options that hold views, startView or both
methodUpdateOptions(s, options, hook, urlOutcome) ==
    buildByView(IF /\ "startView" \in DOMAIN options
                   /\ mergedSettings(s, options).startView
                          \in mergedSettings(s, options).views
                THEN setView([s EXCEPT !.settings = mergedSettings(s, options)],
                             mergedSettings(s, options).startView)
                ELSE [s EXCEPT !.settings = mergedSettings(s, options)],
                hook, urlOutcome)

\* the public method refresh with an object
MethodRefreshWith(object, hook, urlOutcome) ==
    /\ CanInput
    /\ Return(methodRefresh(Begin, object, hook, urlOutcome), FALSE)
    /\ inputs' = inputs + 1
    /\ UNCHANGED phase

\* the public method setDate with an object
MethodSetDateWith(object, hook, urlOutcome) ==
    /\ CanInput
    /\ Return(IF searchMode THEN Begin
              ELSE methodSetDateObject(Begin, object, hook, urlOutcome), FALSE)
    /\ inputs' = inputs + 1
    /\ UNCHANGED phase

\* the public method updateOptions
MethodUpdateOptions(options, hook, urlOutcome) ==
    /\ CanInput
    /\ "views" \in DOMAIN options
           => Len(options.views) >= Cardinality(settings.views)
    /\ Return(methodUpdateOptions(Begin, options, hook, urlOutcome), FALSE)
    /\ inputs' = inputs + 1
    /\ UNCHANGED phase

\* a view name that is none of the four
OtherName == "agenda"

RefreshObjects == {[view |-> v] : v \in {"week", "month", OtherName}}

\* 2024-03-31 as a Date instance and as a date string
SetDateValues ==
    {DateValue(MakeDay(2024, 2, 31)),
     Chars(formatDateToDateString(MakeDay(2024, 2, 31)))}

SetDateObjects ==
    [date : SetDateValues, view : {"month", OtherName}]

OptionViews ==
    {<<"month", "year">>, <<"week", OtherName>>}

OptionObjects ==
    {[views |-> a] : a \in OptionViews}
        \cup {[startView |-> v] : v \in {"week", OtherName}}
        \cup {[views |-> a, startView |-> v] :
                  a \in OptionViews, v \in {"week", OtherName}}

MethodSettings ==
    [url : {"string"}, queryParams : {FALSE}, startWeekOnSunday : {TRUE},
     views : {{"day", "month"}}, startView : {"day"},
     startDate : {FirstProbeDay}, storeState : {FALSE}, debug : {TRUE},
     navigateOnWheel : {TRUE}, holidays : {"none"}, view : {"none"}]

MethodInit == Created(MethodSettings)

MethodNext ==
    \/ \E h \in Hooks, u \in UrlOutcomes : InitWidget(h, u)
    \/ \E v \in Views, h \in Hooks, u \in UrlOutcomes : SelectView(v, h, u)
    \/ \E o \in RefreshObjects, h \in Hooks, u \in UrlOutcomes :
          MethodRefreshWith(o, h, u)
    \/ \E o \in SetDateObjects, h \in Hooks, u \in UrlOutcomes :
          MethodSetDateWith(o, h, u)
    \/ \E o \in OptionObjects, h \in Hooks, u \in UrlOutcomes :
          MethodUpdateOptions(o, h, u)
    \/ \E r \in Pending : \E k \in PayloadKinds, n \in TotalsOf(r) : AjaxSuccess(r, k, n)
    \/ \E r \in Pending : AjaxError(r)

\* the widget with the public methods that take an object
MethodSpec == MethodInit /\ [][MethodNext]_vars

\* C37: once the widget is initialised the active view is one of
\* settings.views, whatever was selected, set, refreshed or updated
C37_ViewConfigured == phase = "ready" => view \in settings.views

\* C38: refresh with {view: v}, v one of settings.views and not the active
\* view, makes v the active view
C38_RefreshSetsView ==
    [][\A o \in RefreshObjects, h \in Hooks, u \in UrlOutcomes :
          (/\ MethodRefreshWith(o, h, u)
           /\ o.view \in settings.views
           /\ o.view # view) => view' = o.view]_vars

\* the day a Date instance or a date string stands for
DayOfValue(value) ==
    IF value.t = "date" THEN value.n ELSE parseDateString(value.cs)

\* C39: setDate with {date, view}, date a Date instance or a date string,
\* raises no error and stores the date, and the view when it is one of
\* settings.views
C39_SetDateObject ==
    [][\A o \in SetDateObjects, h \in Hooks, u \in UrlOutcomes :
          MethodSetDateWith(o, h, u) =>
              /\ last'.error = "none"
              /\ date' = DayOfValue(o.date)
              /\ o.view \in settings.views => view' = o.view]_vars

(***************************************************************************)
(* A navigation and the navigation that undoes it, on their own.             *)
(***************************************************************************)
\* the switch of navigateForward (step = 1) or navigateBack (step = -1)
\* runs on the date the navigation named before has stored
NavigateAgain(before, op, step) ==
    /\ phase = "probe" /\ probe.op = before
    /\ view \in Views
    /\ date' = Navigated(view, date, step)
    /\ probe' = [probe EXCEPT !.op = op]
    /\ UNCHANGED <<phase, settings, view, lastView, searchMode,
                   searchPagination, loading, xhr, appointments, searchInput,
                   container, rendered, pager, reqs, inputs, last, rapid,
                   wrapperId, storedView, searched, loadingHolidays,
                   holidayLoads, indicator, timers, orphans>>

TurnBack == NavigateAgain("forward", "forward-back", -1)

TurnForward == NavigateAgain("back", "back-forward", 1)

RoundNext == StepForward \/ StepBack \/ TurnBack \/ TurnForward

RoundSpec == DateInit /\ [][RoundNext]_vars

\* the days a and b lie in the same period of the view v
SamePeriod(v, a, b) ==
    CASE v = "day" -> a = b
      [] v = "week" -> WeekStartOf(a) = WeekStartOf(b)
      [] v = "month" -> getFullYear(a) = getFullYear(b) /\ getMonth(a) = getMonth(b)
      [] OTHER -> getFullYear(a) = getFullYear(b)

\* C40: navigateBack right after navigateForward, and navigateForward right
\* after navigateBack, leave the date in the period it was in before: the
\* same day, week, month or year, by the view
C40_RoundTrip ==
    probe.op \in {"forward-back", "back-forward"} =>
        SamePeriod(view, date, probe.date)

====
